---- MODULE Spec2Model ----
(***************************************************************************)
(* Uartium: the trigger engine (uartium/triggers.py) and the typed-value   *)
(* conversion of the line parser (uartium/serial_backend.py).              *)
(*                                                                         *)
(* Representation.                                                         *)
(*   - A Python Optional is a sequence of length 0 (None) or 1 (a value).  *)
(*   - A Python str is a sequence of one-character strings.                *)
(*   - A Python float is a fixed-point integer in units of 1/FP.           *)
(*   - Timestamps and rate_window are whole seconds of the host clock.     *)
(*   - The insertion-ordered dict `triggers` is a sequence of              *)
(*     TriggerCondition records with pairwise distinct trigger_id.         *)
(***************************************************************************)
EXTENDS Integers, Sequences, FiniteSets, TLC

\* ------------------------------------------------------------------------
\* Bounds of the model
\* ------------------------------------------------------------------------
MaxEvals == 2        \* evaluate_message calls per behaviour
MaxTriggers == 2     \* triggers held at once
MaxRawLen == 3       \* characters of a raw field value
MaxPatLen == 2       \* characters of a message pattern
MaxTextLen == 2      \* characters of a record text

\* ------------------------------------------------------------------------
\* Program constants
\* ------------------------------------------------------------------------
max_history == 1000
max_window == 300

\* ------------------------------------------------------------------------
\* Optional values and small helpers
\* ------------------------------------------------------------------------
None == <<>>
Some(x) == <<x>>
IsNone(o) == o = <<>>
Get(o) == o[1]

Abs(n) == IF n < 0 THEN -n ELSE n

RECURSIVE Pow10(_)
Pow10(k) == IF k = 0 THEN 1 ELSE 10 * Pow10(k - 1)

\* Fixed-point scale of the floats: one decimal digit per raw character.
FP == Pow10(MaxRawLen)

SeqsUpTo(S, n) == UNION {[1..k -> S] : k \in 0..n}

\* ------------------------------------------------------------------------
\* Python int() and float() on a raw token value
\* ------------------------------------------------------------------------
Digits == {"0", "1", "2", "3", "4", "5", "6", "7", "8", "9"}
DigitOf(c) == CASE c = "0" -> 0 [] c = "1" -> 1 [] c = "2" -> 2 [] c = "3" -> 3
                [] c = "4" -> 4 [] c = "5" -> 5 [] c = "6" -> 6 [] c = "7" -> 7
                [] c = "8" -> 8 [] c = "9" -> 9

IsDigits(s) == Len(s) > 0 /\ \A i \in 1..Len(s) : s[i] \in Digits

RECURSIVE DigitsVal(_)
DigitsVal(s) ==
    IF s = <<>> THEN 0
    ELSE 10 * DigitsVal(SubSeq(s, 1, Len(s) - 1)) + DigitOf(s[Len(s)])

HasSign(s) == s # <<>> /\ s[1] \in {"-", "+"}
Unsigned(s) == IF HasSign(s) THEN Tail(s) ELSE s
SignOf(s) == IF s # <<>> /\ s[1] = "-" THEN -1 ELSE 1

\* A Python int is unbounded: it is held as sign and magnitude, the
\* magnitude in two limbs, hi * Limb + lo with 0 <= lo < Limb.
Limb == 256 * 256
Wide(neg, hi, lo) == [neg |-> neg, hi |-> hi, lo |-> lo]
WideOfNat(n) == Wide(FALSE, n \div Limb, n % Limb)
\* The int as a number of the model, for magnitudes that fit one.
NarrowOf(w) == (IF w.neg THEN -1 ELSE 1) * (w.hi * Limb + w.lo)

Mul10Add(w, d) ==
    LET x == w.lo * 10 + d IN Wide(FALSE, w.hi * 10 + x \div Limb, x % Limb)

RECURSIVE WideDigitsVal(_)
WideDigitsVal(s) ==
    IF s = <<>> THEN WideOfNat(0)
    ELSE Mul10Add(WideDigitsVal(SubSeq(s, 1, Len(s) - 1)), DigitOf(s[Len(s)]))

\* int(raw): an optional sign followed by one or more decimal digits.
IntParses(s) == IsDigits(Unsigned(s))
IntVal(s) ==
    LET m == WideDigitsVal(Unsigned(s))
    IN  [m EXCEPT !.neg = SignOf(s) = -1 /\ (m.hi # 0 \/ m.lo # 0)]

\* abs(n) of an int
abs_int(w) == [w EXCEPT !.neg = FALSE]

\* float(raw): an optional sign, then digits with at most one point and at
\* least one digit ("5.", ".5" and "5" parse; "." and "" do not), or the
\* not-a-number literal nan in any case.
DotAt(s) == {i \in 1..Len(s) : s[i] = "."}
IntPart(s) == IF DotAt(s) = {} THEN s
              ELSE SubSeq(s, 1, (CHOOSE i \in DotAt(s) : TRUE) - 1)
FracPart(s) == IF DotAt(s) = {} THEN <<>>
               ELSE SubSeq(s, (CHOOSE i \in DotAt(s) : TRUE) + 1, Len(s))
FloatBodyParses(b) ==
    /\ Cardinality(DotAt(b)) <= 1
    /\ Len(IntPart(b)) + Len(FracPart(b)) > 0
    /\ \A i \in 1..Len(b) : b[i] \in Digits \cup {"."}
IsNaNLiteral(s) ==
    /\ Len(Unsigned(s)) = 3
    /\ Unsigned(s)[1] \in {"n", "N"}
    /\ Unsigned(s)[2] \in {"a", "A"}
    /\ Unsigned(s)[3] \in {"n", "N"}
FloatParses(s) == FloatBodyParses(Unsigned(s)) \/ IsNaNLiteral(s)
FloatBodyVal(b) ==
    DigitsVal(IntPart(b)) * FP + DigitsVal(FracPart(b)) * (FP \div Pow10(Len(FracPart(b))))
FloatVal(s) == SignOf(s) * FloatBodyVal(Unsigned(s))

\* Mutation of Mask32: the mask keeps 31 bits.
Mask32_31Bits(w) == Wide(FALSE, w.hi % (Limb \div 2), w.lo)

\* n & 0xFFFFFFFF for a non-negative n: the two low limbs of n.
Mask32(w) == Wide(FALSE, w.hi % Limb, w.lo)

\* ------------------------------------------------------------------------
\* SerialBackend._parse_data_fields: conversion of one name:type=raw token
\* ------------------------------------------------------------------------
\* A field value is an int, a float (in 1/FP, or not a number) or the raw
\* string kept verbatim.
IntValue(w) == [kind |-> "int", int |-> w, num |-> 0, raw |-> <<>>]
NumValue(n) == [kind |-> "float", int |-> WideOfNat(0), num |-> n, raw |-> <<>>]
StrValue(s) == [kind |-> "str", int |-> WideOfNat(0), num |-> 0, raw |-> s]
NaNValue == [kind |-> "nan", int |-> WideOfNat(0), num |-> 0, raw |-> <<>>]
IsNum(value) == value.kind # "str"

TYPE_MAP(type_char) ==
    CASE type_char = Some("u") -> "uint"
      [] type_char = Some("i") -> "int"
      [] type_char = Some("s") -> "str"
      [] type_char = Some("f") -> "float"
      [] type_char = Some("t") -> "timestamp"
      [] type_char = Some("m") -> "message"
      [] OTHER -> "str"

ConvertValue(type_label, raw_value) ==
    IF type_label \in {"uint", "timestamp"}
    THEN IF IntParses(raw_value)
         THEN IntValue(Mask32(abs_int(IntVal(raw_value))))
         ELSE StrValue(raw_value)
    ELSE IF type_label = "int"
    THEN IF IntParses(raw_value) THEN IntValue(IntVal(raw_value))
         ELSE StrValue(raw_value)
    ELSE IF type_label = "float"
    THEN IF IsNaNLiteral(raw_value) THEN NaNValue
         ELSE IF FloatParses(raw_value) THEN NumValue(FloatVal(raw_value))
         ELSE StrValue(raw_value)
    ELSE StrValue(raw_value)

\* Mutation of ParseField: a value kept as raw string is labelled str.
ParseField_StrOnFailure(type_char, raw_value) ==
    [value |-> ConvertValue(TYPE_MAP(type_char), raw_value),
     type |-> IF IsNum(ConvertValue(TYPE_MAP(type_char), raw_value))
              THEN TYPE_MAP(type_char) ELSE "str"]

\* The entry fields[var_name] built from the token's type suffix and value.
ParseField(type_char, raw_value) ==
    [value |-> ConvertValue(TYPE_MAP(type_char), raw_value),
     type |-> TYPE_MAP(type_char)]

\* ------------------------------------------------------------------------
\* Trigger data model
\* ------------------------------------------------------------------------
VARIABLE_THRESHOLD == "variable_threshold"
MESSAGE_PATTERN == "message_pattern"
MESSAGE_RATE == "message_rate"
ERROR_COUNT == "error_count"

VISUAL_ALERT == "visual_alert"
AUDIO_ALERT == "audio_alert"
LOG_TO_FILE == "log_to_file"
PAUSE_CAPTURE == "pause_capture"
HIGHLIGHT_MESSAGE == "highlight_message"

\* An Enum member is represented by its value; Enum(tag) raises ValueError
\* for a tag that is the value of no member.
TriggerType == {VARIABLE_THRESHOLD, MESSAGE_PATTERN, MESSAGE_RATE, ERROR_COUNT}
TriggerComparison == {">", "<", "==", "!=", ">=", "<="}
TriggerAction ==
    {VISUAL_ALERT, AUDIO_ALERT, LOG_TO_FILE, PAUSE_CAPTURE, HIGHLIGHT_MESSAGE}

\* time.time() counts from 1970 and is never 0: at instant 0 of the model's
\* clock it reads one second.
time_time(clock) == clock + 1

\* __post_init__: actions None becomes [VISUAL_ALERT]; created_at 0.0 becomes
\* the reading of the clock.
post_init_actions(actions) == IF IsNone(actions) THEN <<VISUAL_ALERT>> ELSE Get(actions)
post_init_created_at(created_at, clock) ==
    IF created_at = 0 THEN time_time(clock) ELSE created_at

\* The dataclass constructor with every field given, called at instant `clock`.
dataclass_init(data, clock) ==
    [trigger_id |-> data.trigger_id, name |-> data.name, enabled |-> data.enabled,
     trigger_type |-> data.trigger_type,
     variable_name |-> data.variable_name, comparison |-> data.comparison,
     threshold_value |-> data.threshold_value,
     message_pattern |-> data.message_pattern,
     pattern_is_regex |-> data.pattern_is_regex,
     rate_threshold |-> data.rate_threshold, rate_window |-> data.rate_window,
     actions |-> post_init_actions(data.actions),
     created_at |-> post_init_created_at(data.created_at, clock),
     fire_count |-> data.fire_count, last_fired |-> data.last_fired]

\* TriggerCondition(...) called at instant 0 with the metadata fields left to
\* their defaults (created_at 0.0, fire_count 0, last_fired None).
TriggerCondition(id, nm, en, ty, var, cmp, thr, pat, rx, rate, win, actions) ==
    dataclass_init(
        [trigger_id |-> id, name |-> nm, enabled |-> en, trigger_type |-> ty,
         variable_name |-> var, comparison |-> cmp, threshold_value |-> thr,
         message_pattern |-> pat, pattern_is_regex |-> rx,
         rate_threshold |-> rate, rate_window |-> win, actions |-> actions,
         created_at |-> 0, fire_count |-> 0, last_fired |-> None], 0)

\* Mutation of TriggerEvent: the event is stamped 0, not with the record's
\* timestamp.
TriggerEvent_Unstamped(trigger, ts, what) ==
    [trigger_id |-> trigger.trigger_id, trigger_name |-> trigger.name,
     timestamp |-> 0, message |-> what]

TriggerEvent(trigger, ts, what) ==
    [trigger_id |-> trigger.trigger_id, trigger_name |-> trigger.name,
     timestamp |-> ts, message |-> what]

\* ------------------------------------------------------------------------
\* Python `pattern in text` and re.search(pattern, text)
\* ------------------------------------------------------------------------
\* Mutation of Contains: the pattern is looked for at the start of the text only.
Contains_AtStart(text, pattern) ==
    /\ Len(pattern) <= Len(text)
    /\ SubSeq(text, 1, Len(pattern)) = pattern

Contains(text, pattern) ==
    \E k \in 1..(Len(text) + 1) :
        /\ k + Len(pattern) - 1 <= Len(text)
        /\ SubSeq(text, k, k + Len(pattern) - 1) = pattern

\* The regex dialect of the model: literal characters, "." (any character),
\* a postfix "*" and "[" (which opens a character set).  re.compile raises
\* re.error for an unterminated "[" ("]" is not in the alphabet), for a "*"
\* with nothing to repeat and for a "*" that follows a "*".
RegexCompiles(p) ==
    /\ \A i \in 1..Len(p) : p[i] # "["
    /\ \A i \in 1..Len(p) : p[i] = "*" => (i > 1 /\ p[i - 1] # "*")

AtomMatches(a, c) == a = "." \/ a = c

RECURSIVE MatchAt(_, _, _, _)
MatchAt(p, i, text, j) ==
    IF i > Len(p) THEN TRUE
    ELSE IF i + 1 <= Len(p) /\ p[i + 1] = "*"
    THEN \/ MatchAt(p, i + 2, text, j)
         \/ (j <= Len(text) /\ AtomMatches(p[i], text[j]) /\ MatchAt(p, i, text, j + 1))
    ELSE j <= Len(text) /\ AtomMatches(p[i], text[j]) /\ MatchAt(p, i + 1, text, j + 1)

re_search(p, text) == \E j \in 1..(Len(text) + 1) : MatchAt(p, 1, text, j)

\* ------------------------------------------------------------------------
\* Evaluation of one trigger against one message
\* ------------------------------------------------------------------------
\* The outcome of an _evaluate_* method: None, an event, or an exception
\* that leaves the method.
NoFire == [status |-> "none"]
Fire(e) == [status |-> "fire", event |-> e]
Raise(x) == [status |-> "raise", exc |-> x]

\* float(value): a number converts; a str converts when float() parses it.
FloatOK(value) == IsNum(value) \/ FloatParses(value.raw)
\* float(value) is nan
FloatIsNaN(value) ==
    value.kind = "nan" \/ (value.kind = "str" /\ IsNaNLiteral(value.raw))
FloatOf(value) ==
    CASE value.kind = "int" -> NarrowOf(value.int) * FP
      [] value.kind = "float" -> value.num
      [] OTHER -> FloatVal(value.raw)

\* 1e-6 as 1/EPS_DEN; |d| < 1e-6 for a difference d in units of 1/FP.
EPS_DEN == 1000000
WithinEps(d) == Abs(d) < (FP + EPS_DEN - 1) \div EPS_DEN

\* Mutation of conditions: ">" is evaluated as ">=".
conditions_GreaterOrEqual(comparison, value, threshold) ==
    CASE comparison = Some(">") -> value >= threshold
      [] comparison = Some("<") -> value < threshold
      [] comparison = Some("==") -> WithinEps(value - threshold)
      [] comparison = Some("!=") -> ~WithinEps(value - threshold)
      [] comparison = Some(">=") -> value >= threshold
      [] comparison = Some("<=") -> value <= threshold
      [] OTHER -> FALSE

\* conditions.get(comparison, False) for a numeric threshold
conditions(comparison, value, threshold) ==
    CASE comparison = Some(">") -> value > threshold
      [] comparison = Some("<") -> value < threshold
      [] comparison = Some("==") -> WithinEps(value - threshold)
      [] comparison = Some("!=") -> ~WithinEps(value - threshold)
      [] comparison = Some(">=") -> value >= threshold
      [] comparison = Some("<=") -> value <= threshold
      [] OTHER -> FALSE

_evaluate_variable_threshold(trigger, msg) ==
    IF IsNone(trigger.variable_name)
       \/ Get(trigger.variable_name) \notin DOMAIN msg.data_fields
    THEN NoFire
    ELSE LET value == msg.data_fields[Get(trigger.variable_name)].value
         IN  IF ~FloatOK(value) THEN NoFire
             ELSE IF IsNone(trigger.threshold_value) THEN Raise("TypeError")
             ELSE IF FloatIsNaN(value) THEN NoFire   \* every comparison is False
             ELSE IF conditions(trigger.comparison, FloatOf(value),
                                Get(trigger.threshold_value))
             THEN Fire(TriggerEvent(trigger, msg.timestamp, "threshold"))
             ELSE NoFire

\* Mutation of _evaluate_message_pattern: re.error is not caught.
_evaluate_message_pattern_Uncaught(trigger, msg) ==
    IF IsNone(trigger.message_pattern) \/ Get(trigger.message_pattern) = <<>>
    THEN NoFire
    ELSE LET pattern == Get(trigger.message_pattern)
         IN  IF trigger.pattern_is_regex
             THEN IF ~RegexCompiles(pattern) THEN Raise("re.error")
                  ELSE IF re_search(pattern, msg.text)
                  THEN Fire(TriggerEvent(trigger, msg.timestamp, "Pattern matched"))
                  ELSE NoFire
             ELSE IF Contains(msg.text, pattern)
                  THEN Fire(TriggerEvent(trigger, msg.timestamp, "Text contains"))
                  ELSE NoFire

_evaluate_message_pattern(trigger, msg) ==
    IF IsNone(trigger.message_pattern) \/ Get(trigger.message_pattern) = <<>>
    THEN NoFire
    ELSE LET pattern == Get(trigger.message_pattern)
         IN  IF trigger.pattern_is_regex
             THEN IF RegexCompiles(pattern) /\ re_search(pattern, msg.text)
                  THEN Fire(TriggerEvent(trigger, msg.timestamp, "Pattern matched"))
                  ELSE NoFire
             ELSE IF Contains(msg.text, pattern)
                  THEN Fire(TriggerEvent(trigger, msg.timestamp, "Text contains"))
                  ELSE NoFire

CountSince(window, window_start) ==
    Cardinality({i \in 1..Len(window) : window[i] >= window_start})

\* count / rate_window > rate_threshold, for rate_window # 0
RateExceeds(count, rate_window, rate_threshold) ==
    IF rate_window > 0 THEN count * FP > rate_threshold * rate_window
    ELSE count * FP < rate_threshold * rate_window

_evaluate_message_rate(trigger, msg, timestamps) ==
    LET count == CountSince(timestamps, msg.timestamp - trigger.rate_window)
    IN  IF trigger.rate_window = 0 THEN Raise("ZeroDivisionError")
        ELSE IF IsNone(trigger.rate_threshold) THEN Raise("TypeError")
        ELSE IF RateExceeds(count, trigger.rate_window, Get(trigger.rate_threshold))
        THEN Fire(TriggerEvent(trigger, msg.timestamp, "Message rate"))
        ELSE NoFire

_evaluate_error_count(trigger, msg, errors) ==
    LET error_count == CountSince(errors, msg.timestamp - trigger.rate_window)
    IN  IF IsNone(trigger.threshold_value) THEN Raise("TypeError")
        ELSE IF error_count * FP > Get(trigger.threshold_value)
        THEN Fire(TriggerEvent(trigger, msg.timestamp, "Error count"))
        ELSE NoFire

_evaluate_trigger(trigger, msg, timestamps, errors) ==
    CASE trigger.trigger_type = VARIABLE_THRESHOLD -> _evaluate_variable_threshold(trigger, msg)
      [] trigger.trigger_type = MESSAGE_PATTERN -> _evaluate_message_pattern(trigger, msg)
      [] trigger.trigger_type = MESSAGE_RATE -> _evaluate_message_rate(trigger, msg, timestamps)
      [] trigger.trigger_type = ERROR_COUNT -> _evaluate_error_count(trigger, msg, errors)
      [] OTHER -> NoFire

\* ------------------------------------------------------------------------
\* State of a TriggerEngine and of its caller
\* ------------------------------------------------------------------------
VARIABLES
    triggers,               \* self.triggers, in insertion order
    history,                \* self.history
    message_timestamps,     \* self._message_timestamps
    error_count_window,     \* timestamps of self._error_count_window (cnt is always 1)
    handlers,               \* the TriggerActions whose on_* callback is set
    now,                    \* time.time()
    fired_events,           \* fired_events of the last evaluate_message call
    raised,                 \* the exception that left that call, or "none"
    calls,                  \* callback invocations made by that call, in order
    lastOp,                 \* "evaluate_message" right after such a call, else "other"
    lastMsg,                \* the msg of the last evaluate_message call
    seen,                   \* history variable: timestamp and level of every msg
                            \* evaluated since the initial state, in order
    fired,                  \* history variable: every event ever fired, in order
    disk,                   \* the file at the path of save_triggers / load_triggers:
                            \* None when it does not exist, else its document
    op,                     \* the last call on the engine, or "untraced"
    line,                   \* the line the reader received last
    parsed,                 \* None, or the record _parse_line made of `line`
    backend,                \* "serial" for SerialBackend, "demo" for DemoSerialBackend
    _queue,                 \* the deque between the worker and read_message
    _running,               \* the flag the worker's loop tests
    _thread,                \* None, or the worker start() created last
    _ser,                   \* None, or the open port
    workers,                \* every worker thread created, in order: where it
                            \* is, and what it has been told
    caller,                 \* "idle", or "joining" inside stop()
    got,                    \* what read_message returned last
    arrivals                \* history variable: every append by a worker, in order

vars == <<triggers, history, message_timestamps, error_count_window, handlers, now,
          fired_events, raised, calls, lastOp, lastMsg, seen, fired,
          disk, op, line, parsed,
          backend, _queue, _running, _thread, _ser, workers, caller, got, arrivals>>

\* The backend object and its worker threads.
backend_state == <<backend, _queue, _running, _thread, _ser, workers, caller, got,
                   arrivals>>

\* What the engine's in-memory operations never touch.
elsewhere == <<disk, line, parsed, backend_state>>

\* SerialBackend.__init__, DemoSerialBackend.__init__
NeverStarted(which) ==
    /\ backend = which
    /\ _queue = <<>>
    /\ _running = FALSE
    /\ _thread = None
    /\ _ser = None
    /\ workers = <<>>
    /\ caller = "idle"
    /\ got = None
    /\ arrivals = <<>>

\* No file, no line received, and calls on the engine are not traced.
InitElsewhere ==
    /\ disk = None
    /\ op = "untraced"
    /\ line = <<>>
    /\ parsed = None
    /\ NeverStarted("demo")

\* The name of the call is recorded in behaviours that trace the calls.
Traced(name) == op' = IF op = "untraced" THEN op ELSE name

NoMsg == [timestamp |-> 0, level |-> "INFO", text |-> <<>>, data_fields |-> <<>>]

\* TriggerEngine.__init__
Init ==
    /\ triggers = <<>>
    /\ history = <<>>
    /\ message_timestamps = <<>>
    /\ error_count_window = <<>>
    /\ handlers = {}
    /\ now = 0
    /\ fired_events = <<>>
    /\ raised = "none"
    /\ calls = <<>>
    /\ lastOp = "other"
    /\ lastMsg = NoMsg
    /\ seen = <<>>
    /\ fired = <<>>
    /\ InitElsewhere

Ids(trigs) == {trigs[i].trigger_id : i \in 1..Len(trigs)}
IndexOf(trigs, id) == CHOOSE i \in 1..Len(trigs) : trigs[i].trigger_id = id

\* What evaluate_message returned, raised and invoked is observable until the
\* next operation on the engine begins.
NoResult ==
    /\ fired_events' = <<>>
    /\ raised' = "none"
    /\ calls' = <<>>
    /\ lastMsg' = NoMsg
    /\ lastOp' = "other"

untouched_by_mutators ==
    /\ UNCHANGED <<history, message_timestamps, error_count_window, handlers, now,
                   seen, fired>>
    /\ UNCHANGED elsewhere
    /\ NoResult

\* Mutation of dict_set: the trigger is appended whatever its id.
dict_set_AlwaysAppend(trigs, trigger) == Append(trigs, trigger)

\* self.triggers[trigger.trigger_id] = trigger
dict_set(trigs, trigger) ==
    IF trigger.trigger_id \in Ids(trigs)
    THEN [trigs EXCEPT ![IndexOf(trigs, trigger.trigger_id)] = trigger]
    ELSE Append(trigs, trigger)

add_trigger(trigger) ==
    /\ Len(dict_set(triggers, trigger)) <= MaxTriggers
    /\ triggers' = dict_set(triggers, trigger)
    /\ Traced("add_trigger")
    /\ untouched_by_mutators

\* A call that names an id the engine does not hold is traced as such.
Known(trigger_id, name, otherwise) ==
    IF trigger_id \in Ids(triggers) THEN name ELSE otherwise

\* Mutation of dict_del: an unknown id removes the newest trigger.
dict_del_NewestWhenUnknown(trigs, trigger_id) ==
    IF trigger_id \in Ids(trigs)
    THEN SelectSeq(trigs, LAMBDA t : t.trigger_id # trigger_id)
    ELSE SubSeq(trigs, 1, Len(trigs) - 1)

\* if trigger_id in self.triggers: del self.triggers[trigger_id]
dict_del(trigs, trigger_id) ==
    IF trigger_id \in Ids(trigs)
    THEN SelectSeq(trigs, LAMBDA t : t.trigger_id # trigger_id)
    ELSE trigs

remove_trigger(trigger_id) ==
    /\ triggers' = dict_del(triggers, trigger_id)
    /\ Traced(Known(trigger_id, "remove_trigger", "remove_trigger:unknown"))
    /\ untouched_by_mutators

enable_trigger(trigger_id, enabled) ==
    /\ triggers' = [i \in 1..Len(triggers) |->
                      IF triggers[i].trigger_id = trigger_id
                      THEN [triggers[i] EXCEPT !.enabled = enabled]
                      ELSE triggers[i]]
    /\ Traced(Known(trigger_id, "enable_trigger", "enable_trigger:unknown"))
    /\ untouched_by_mutators

clear_triggers ==
    /\ triggers' = <<>>
    /\ Traced("clear_triggers")
    /\ untouched_by_mutators

\* The presentation layer sets or unsets one of the engine's on_* callbacks.
set_handler(action, callback_set) ==
    /\ handlers' = IF callback_set THEN handlers \cup {action} ELSE handlers \ {action}
    /\ NoResult
    /\ Traced("set_handler")
    /\ UNCHANGED elsewhere
    /\ UNCHANGED <<triggers, history, message_timestamps, error_count_window, now,
                   seen, fired>>

\* The host clock advances to a later instant.
Tick(t) ==
    /\ t > now
    /\ now' = t
    /\ NoResult
    /\ Traced("tick")
    /\ UNCHANGED elsewhere
    /\ UNCHANGED <<triggers, history, message_timestamps, error_count_window, handlers,
                   seen, fired>>

\* ------------------------------------------------------------------------
\* evaluate_message
\* ------------------------------------------------------------------------
\* Mutation of cleanup: nothing is pruned.
cleanup_NoPruning(window, current_time) == window

\* _cleanup_tracking_data: [ts for ts in window if ts >= cutoff]
cleanup(window, current_time) ==
    SelectSeq(window, LAMBDA ts : ts >= current_time - max_window)

\* Mutation of append_history: beyond max_history the newest entry is popped.
append_history_PopNewest(hist, event) ==
    IF Len(hist) + 1 > max_history THEN hist
    ELSE Append(hist, event)

\* history.append(event); pop(0) beyond max_history
append_history(hist, event) ==
    IF Len(hist) + 1 > max_history THEN Tail(Append(hist, event))
    ELSE Append(hist, event)

\* Mutation of record_fire: last_fired is left as it was.
record_fire_KeepingLastFired(trigger, event) ==
    [trigger EXCEPT !.fire_count = @ + 1]

\* fire_count += 1; last_fired = event.timestamp
record_fire(trigger, event) ==
    [trigger EXCEPT !.fire_count = @ + 1, !.last_fired = Some(event.timestamp)]

\* Mutation of HasHandler: the callback is used without testing that it is set.
HasHandler_Unchecked(action, registered) ==
    action \in {VISUAL_ALERT, AUDIO_ALERT, LOG_TO_FILE, PAUSE_CAPTURE}

\* The action's callback, when that action has one and it is set.
HasHandler(action, registered) ==
    action \in {VISUAL_ALERT, AUDIO_ALERT, LOG_TO_FILE, PAUSE_CAPTURE} /\ action \in registered

\* _execute_actions: the callback invocations, in the order of trigger.actions.
\* `recorded` tells whether the event was the newest entry of history when
\* the callback ran.
_execute_actions(trigger, event, registered, hist) ==
    LET invoked == SelectSeq(trigger.actions, LAMBDA a : HasHandler(a, registered))
    IN  [k \in 1..Len(invoked) |->
            [action |-> invoked[k], event |-> event,
             recorded |-> hist # <<>> /\ hist[Len(hist)] = event]]

\* Mutation of IsEvaluated: the loop forgets to skip disabled triggers.
IsEvaluated_IgnoringEnabled(trigger) == TRUE

\* `if not trigger.enabled: continue`
IsEvaluated(trigger) == trigger.enabled

\* The loop of evaluate_message from the i-th trigger on; st carries what the
\* loop has changed so far.  An exception ends the loop where it is raised.
RECURSIVE EvalLoop(_, _, _, _, _, _)
EvalLoop(i, st, msg, timestamps, errors, registered) ==
    IF i > Len(st.triggers) THEN st
    ELSE IF ~IsEvaluated(st.triggers[i])
    THEN EvalLoop(i + 1, st, msg, timestamps, errors, registered)
    ELSE LET trigger == st.triggers[i]
             out == _evaluate_trigger(trigger, msg, timestamps, errors)
         IN  IF out.status = "raise" THEN [st EXCEPT !.raised = out.exc]
             ELSE IF out.status = "none"
             THEN EvalLoop(i + 1, st, msg, timestamps, errors, registered)
             ELSE LET hist == append_history(st.history, out.event)
                  IN  EvalLoop(i + 1,
                        [st EXCEPT !.triggers[i] = record_fire(trigger, out.event),
                                   !.history = hist,
                                   !.fired_events = Append(@, out.event),
                                   !.calls = @ \o _execute_actions(trigger, out.event,
                                                                   registered, hist)],
                        msg, timestamps, errors, registered)

evaluate_message(msg) ==
    LET stamped == Append(message_timestamps, msg.timestamp)
        errs == IF msg.level = "ERROR" THEN Append(error_count_window, msg.timestamp)
                ELSE error_count_window
        timestamps == cleanup(stamped, now)
        errors == cleanup(errs, now)
        st == EvalLoop(1, [triggers |-> triggers, history |-> history,
                           fired_events |-> <<>>, calls |-> <<>>, raised |-> "none"],
                       msg, timestamps, errors, handlers)
    IN  /\ message_timestamps' = timestamps
        /\ error_count_window' = errors
        /\ triggers' = st.triggers
        /\ history' = st.history
        /\ fired_events' = st.fired_events
        /\ calls' = st.calls
        /\ raised' = st.raised
        /\ lastOp' = "evaluate_message"
        /\ lastMsg' = msg
        /\ seen' = Append(seen, [timestamp |-> msg.timestamp, level |-> msg.level])
        /\ fired' = fired \o st.fired_events
        /\ Traced("evaluate_message")
        /\ UNCHANGED elsewhere
        /\ UNCHANGED <<handlers, now>>

\* ------------------------------------------------------------------------
\* Inputs
\* ------------------------------------------------------------------------
TriggerIds == {"t1", "t2"}
Actions == {VISUAL_ALERT, AUDIO_ALERT, LOG_TO_FILE, PAUSE_CAPTURE, HIGHLIGHT_MESSAGE}
Callbacks == {VISUAL_ALERT, AUDIO_ALERT, LOG_TO_FILE, PAUSE_CAPTURE}

\* A msg dict as _parse_line builds it; an absent data_fields key reads as {}.
Msg(level, text, data_fields) ==
    [timestamp |-> 0, level |-> level, text |-> text, data_fields |-> data_fields]
NoFields == <<>>
OneField(name, field) == [n \in {name} |-> field]

\* Records are stamped on receipt and evaluated in the order received: the
\* timestamp of a msg is an instant not after the host clock and not before
\* the timestamp of the msg evaluated before it.
Stampable(ts) ==
    /\ ts <= now
    /\ seen # <<>> => ts >= seen[Len(seen)].timestamp

threshold_trigger(id, nm, var, cmp, thr, actions) ==
    TriggerCondition(id, nm, TRUE, VARIABLE_THRESHOLD, var, cmp, thr,
                     None, FALSE, None, 60, actions)
pattern_trigger(id, nm, pat, rx, actions) ==
    TriggerCondition(id, nm, TRUE, MESSAGE_PATTERN, None, None, None,
                     pat, rx, None, 60, actions)
rate_trigger(id, nm, rate, win, actions) ==
    TriggerCondition(id, nm, TRUE, MESSAGE_RATE, None, None, None,
                     None, FALSE, rate, win, actions)
error_trigger(id, nm, thr, win, actions) ==
    TriggerCondition(id, nm, TRUE, ERROR_COUNT, None, None, thr,
                     None, FALSE, None, win, actions)

\* The consumer hands the engine a record of shape m stamped at ts; a
\* behaviour has at most `most` such calls.
Evaluate(m, ts, most) ==
    /\ Len(seen) < most
    /\ Stampable(ts)
    /\ evaluate_message([m EXCEPT !.timestamp = ts])

\* The steps of an engine whose callers draw triggers from Cat, messages
\* from Shp, callbacks from Cbs and clock readings from Clk, and call
\* evaluate_message at most `most` times.
NextOver(Cat, Shp, Cbs, Clk, most) ==
    \/ \E t \in Cat : add_trigger(t)
    \/ \E id \in TriggerIds : remove_trigger(id)
    \/ \E id \in TriggerIds, en \in BOOLEAN : enable_trigger(id, en)
    \/ clear_triggers
    \/ \E a \in Cbs, on \in BOOLEAN : set_handler(a, on)
    \/ \E t \in Clk : Tick(t)
    \/ \E m \in Shp, ts \in Clk : Evaluate(m, ts, most)

\* ------------------------------------------------------------------------
\* Spec: an engine whose triggers are well formed
\* ------------------------------------------------------------------------
Catalog ==
    { threshold_trigger("t1", "temp high", Some("temp"), Some(">"), Some(30 * FP), None),
      pattern_trigger("t2", "has a", Some(<<"a">>), FALSE,
                      Some(<<AUDIO_ALERT, HIGHLIGHT_MESSAGE, LOG_TO_FILE>>)),
      error_trigger("t1", "errors", Some(0), 2, Some(<<PAUSE_CAPTURE, VISUAL_ALERT>>)) }

Shapes ==
    { Msg("INFO", <<>>, NoFields),
      Msg("INFO", <<"a">>, OneField("temp", ParseField(Some("f"), <<"3", "3">>))),
      Msg("ERROR", <<"a">>, NoFields),
      Msg("ERROR", <<>>, OneField("temp", ParseField(Some("f"), <<"3", "3">>))) }

Instants == {0, 1}

Next == NextOver(Catalog, Shapes, {AUDIO_ALERT}, Instants, MaxEvals)

Spec == Init /\ [][Next]_vars

\* ------------------------------------------------------------------------
\* Properties of evaluate_message
\* ------------------------------------------------------------------------
\* A step is an evaluate_message call exactly when it extends `seen`.
EvaluateStep == seen' # seen

EventsOf(events, id) == SelectSeq(events, LAMBDA e : e.trigger_id = id)
CallsOf(invocations, id) == SelectSeq(invocations, LAMBDA c : c.event.trigger_id = id)

\* The entries an evaluate_message step appended to a history that stayed
\* below its capacity.
Appended == SubSeq(history', Len(history) + 1, Len(history'))

\* C5: only enabled triggers are evaluated.  In every evaluate_message call a
\* disabled trigger produces no event, keeps fire_count and last_fired, adds
\* nothing to history and has no callback invoked; an enabled substring
\* trigger (enabled from the start or re-enabled by enable_trigger) fires in
\* the next call whose text contains its pattern.
C5_OnlyEnabledEvaluated ==
    [][EvaluateStep =>
        \A i \in 1..Len(triggers) :
            LET t == triggers[i] IN
            /\ ~t.enabled =>
                  /\ triggers'[i] = t
                  /\ EventsOf(fired_events', t.trigger_id) = <<>>
                  /\ EventsOf(Appended, t.trigger_id) = <<>>
                  /\ CallsOf(calls', t.trigger_id) = <<>>
            /\ (/\ t.enabled
                /\ t.trigger_type = MESSAGE_PATTERN
                /\ ~t.pattern_is_regex
                /\ Contains(lastMsg'.text, Get(t.message_pattern))
                /\ Get(t.message_pattern) # <<>>
                /\ raised' = "none")
               => Len(EventsOf(fired_events', t.trigger_id)) = 1]_vars

\* Reached: an evaluate_message call whose text contains the pattern of a
\* disabled substring trigger, which stayed silent.
C5_Witness ==
    /\ lastOp = "evaluate_message"
    /\ \E i \in 1..Len(triggers) :
          /\ ~triggers[i].enabled
          /\ triggers[i].trigger_type = MESSAGE_PATTERN
          /\ Contains(lastMsg.text, Get(triggers[i].message_pattern))
          /\ triggers[i].fire_count = 1
          /\ Len(seen) = 2

\* C6: each firing adds exactly 1 to the trigger's fire_count, sets its
\* last_fired to the event's timestamp and appends exactly one event with the
\* trigger's id and name to history; a trigger that did not fire keeps
\* fire_count and last_fired.
C6_FireBookkeeping ==
    [][(EvaluateStep /\ Len(history') < max_history) =>
        /\ history' = history \o Appended
        /\ \A i \in 1..Len(triggers) :
            LET t == triggers[i]
                mine == EventsOf(fired_events', t.trigger_id)
            IN  /\ Len(mine) <= 1
                /\ Len(mine) = 1 =>
                      /\ triggers'[i].fire_count = t.fire_count + 1
                      /\ triggers'[i].last_fired = Some(mine[1].timestamp)
                      /\ Len(EventsOf(Appended, t.trigger_id)) = 1
                      /\ EventsOf(Appended, t.trigger_id)[1] = mine[1]
                      /\ mine[1].trigger_name = t.name
                /\ Len(mine) = 0 =>
                      /\ triggers'[i].fire_count = t.fire_count
                      /\ triggers'[i].last_fired = t.last_fired
                      /\ EventsOf(Appended, t.trigger_id) = <<>>]_vars

\* Reached: a call in which one trigger fired for the second time, at a later
\* timestamp than its first firing, while another trigger did not fire.
C6_Witness ==
    /\ lastOp = "evaluate_message"
    /\ Len(triggers) = 2
    /\ Len(fired_events) = 1
    /\ \E i \in 1..2 :
          /\ triggers[i].fire_count = 2
          /\ triggers[i].last_fired = Some(1)
          /\ fired_events[1].trigger_id = triggers[i].trigger_id
          /\ history[1].timestamp = 0

\* ------------------------------------------------------------------------
\* SpecActions: two substring triggers and all four callbacks
\* ------------------------------------------------------------------------
ActionCatalog ==
    { pattern_trigger("t1", "has a", Some(<<"a">>), FALSE,
                      Some(<<LOG_TO_FILE, HIGHLIGHT_MESSAGE, VISUAL_ALERT>>)),
      pattern_trigger("t2", "has b", Some(<<"b">>), FALSE,
                      Some(<<PAUSE_CAPTURE, AUDIO_ALERT>>)) }

ActionShapes == { Msg("INFO", tx, NoFields) : tx \in {<<"a">>, <<"b">>, <<"a", "b">>} }

NextActions == NextOver(ActionCatalog, ActionShapes, Callbacks, Instants, MaxEvals)

SpecActions == Init /\ [][NextActions]_vars

TriggerOf(trigs, id) == trigs[IndexOf(trigs, id)]

\* The invocations owed to one fired event: one per entry of its trigger's
\* action list that has a callback and whose callback is set, each made when
\* the event is already the newest entry of history.
OwedTo(event) ==
    LET owed == SelectSeq(TriggerOf(triggers, event.trigger_id).actions,
                          LAMBDA a : a \in Callbacks /\ a \in handlers)
    IN  [k \in 1..Len(owed) |-> [action |-> owed[k], event |-> event, recorded |-> TRUE]]

RECURSIVE OwedToAll(_)
OwedToAll(events) ==
    IF events = <<>> THEN <<>> ELSE OwedTo(Head(events)) \o OwedToAll(Tail(events))

\* C7: for every firing, each entry of the trigger's action list whose
\* callback is set is invoked once with the fired event, after the event was
\* appended to history; entries without a set callback and highlight_message
\* are skipped; nothing is invoked for a trigger that did not fire.
C7_ActionsDispatched ==
    [][EvaluateStep => (raised' = "none" /\ calls' = OwedToAll(fired_events'))]_vars

\* Reached: a call in which both triggers fired, one with a set and an unset
\* callback in its list, the other with two set callbacks.
C7_Witness ==
    /\ lastOp = "evaluate_message"
    /\ Len(fired_events) = 2
    /\ handlers = {VISUAL_ALERT, AUDIO_ALERT, PAUSE_CAPTURE}
    /\ Len(calls) = 3

\* ------------------------------------------------------------------------
\* SpecMisconfig: misconfigured triggers next to a well-formed one
\* ------------------------------------------------------------------------
MisconfigCatalog ==
    { threshold_trigger("t1", "no threshold", Some("temp"), Some(">"), None, None),
      threshold_trigger("t1", "no comparator", Some("temp"), None, Some(30 * FP), None),
      threshold_trigger("t1", "no variable", None, Some(">"), Some(30 * FP), None),
      rate_trigger("t1", "no rate", None, 2, None),
      rate_trigger("t1", "zero window", Some(FP \div 2), 0, None),
      error_trigger("t1", "no count", None, 2, None),
      pattern_trigger("t2", "has a", Some(<<"a">>), FALSE, None) }

MisconfigShapes ==
    { Msg("ERROR", <<"a">>, df) :
        df \in {NoFields,
                OneField("temp", ParseField(Some("f"), <<"3", "3">>)),
                OneField("temp", ParseField(Some("f"), <<"x">>))} }

NextMisconfig == NextOver(MisconfigCatalog, MisconfigShapes, {VISUAL_ALERT}, Instants, MaxEvals)

SpecMisconfig == Init /\ [][NextMisconfig]_vars

\* C8: evaluate_message never raises, whatever triggers the engine holds: a
\* misconfigured enabled trigger (no threshold_value, no rate_threshold,
\* rate_window 0, no comparator, a non-numeric field value, a missing
\* variable) only does not fire, and every other enabled trigger is still
\* evaluated in the same call (the substring trigger fires on a text that
\* contains its pattern).
C8_NeverRaises ==
    [][EvaluateStep =>
        /\ raised' = "none"
        /\ \A i \in 1..Len(triggers) :
              (/\ triggers[i].enabled
               /\ triggers[i].trigger_type = MESSAGE_PATTERN
               /\ Contains(lastMsg'.text, Get(triggers[i].message_pattern)))
              => Len(EventsOf(fired_events', triggers[i].trigger_id)) = 1]_vars

\* ------------------------------------------------------------------------
\* SpecPattern: a pattern trigger with any pattern, next to a substring trigger
\* ------------------------------------------------------------------------
PatternAlphabet == {"a", "*", "["}
TextAlphabet == {"a", "A"}
Patterns == SeqsUpTo(PatternAlphabet, MaxPatLen)
Texts == SeqsUpTo(TextAlphabet, MaxTextLen)

PatternCatalog ==
    { pattern_trigger("t1", "pattern", Some(p), rx, None) : p \in Patterns, rx \in BOOLEAN }
    \cup { pattern_trigger("t2", "has a", Some(<<"a">>), FALSE, None) }

PatternShapes == { Msg("INFO", tx, NoFields) : tx \in Texts }

\* Whether a pattern trigger fires depends on the trigger and the msg alone:
\* one evaluate_message call per behaviour.
NextPattern == NextOver(PatternCatalog, PatternShapes, {VISUAL_ALERT}, Instants, 1)

SpecPattern == Init /\ [][NextPattern]_vars

\* A pattern re.compile rejects: it has a "[" (never closed here), starts
\* with "*", or repeats a "*".
InvalidRegex(p) ==
    \/ \E i \in 1..Len(p) : p[i] = "["
    \/ (p # <<>> /\ Head(p) = "*")
    \/ \E i \in 1..(Len(p) - 1) : p[i] = "*" /\ p[i + 1] = "*"

\* text = u + pattern + v for some strings u and v
IsSubstring(pattern, text) ==
    \E u \in Texts, v \in Texts : text = u \o pattern \o v

\* C9: an enabled regex trigger whose pattern is not valid regex syntax never
\* fires and never raises: a call leaves it unchanged and appends no event of
\* it to history, and the other triggers are evaluated normally (the
\* substring trigger fires exactly on the texts that contain its pattern).
C9_InvalidRegexSilent ==
    [][EvaluateStep =>
        \A i \in 1..Len(triggers) :
            LET t == triggers[i] IN
            /\ (/\ t.enabled
                /\ t.trigger_type = MESSAGE_PATTERN
                /\ t.pattern_is_regex
                /\ InvalidRegex(Get(t.message_pattern)))
               => /\ raised' = "none"
                  /\ triggers'[i] = t
                  /\ EventsOf(fired_events', t.trigger_id) = <<>>
                  /\ EventsOf(Appended, t.trigger_id) = <<>>
                  /\ \A j \in 1..Len(triggers) :
                        (triggers[j].enabled /\ ~triggers[j].pattern_is_regex
                         /\ Get(triggers[j].message_pattern) # <<>>)
                        => (Len(EventsOf(fired_events', triggers[j].trigger_id)) = 1
                            <=> IsSubstring(Get(triggers[j].message_pattern), lastMsg'.text))]_vars

\* Reached: a call that evaluated an enabled regex trigger with the pattern
\* "*a" on a text that contains "a", in which only the substring trigger fired.
C9_Witness ==
    /\ lastOp = "evaluate_message"
    /\ Len(triggers) = 2
    /\ triggers[1].enabled /\ triggers[1].pattern_is_regex
    /\ triggers[1].message_pattern = Some(<<"*", "a">>)
    /\ triggers[1].fire_count = 0
    /\ triggers[2].enabled
    /\ Len(fired_events) = 1
    /\ lastMsg.text = <<"A", "a">>
    /\ history # <<>>

\* C10 as stated: an enabled substring trigger fires iff its pattern is a
\* case-sensitive substring of the text, for every pattern and every text.
C10_SubstringEveryPattern ==
    [][EvaluateStep =>
        \A i \in 1..Len(triggers) :
            LET t == triggers[i] IN
            (t.enabled /\ t.trigger_type = MESSAGE_PATTERN /\ ~t.pattern_is_regex)
            => (Len(EventsOf(fired_events', t.trigger_id)) = 1
                <=> IsSubstring(Get(t.message_pattern), lastMsg'.text))]_vars

\* C10 amended: an enabled substring trigger with a non-empty pattern fires
\* iff its pattern is a case-sensitive substring of the text; with the empty
\* pattern it never fires.
C10_SubstringNonEmptyPattern ==
    [][EvaluateStep =>
        \A i \in 1..Len(triggers) :
            LET t == triggers[i] IN
            (t.enabled /\ t.trigger_type = MESSAGE_PATTERN /\ ~t.pattern_is_regex)
            => (Len(EventsOf(fired_events', t.trigger_id)) = 1
                <=> (/\ Get(t.message_pattern) # <<>>
                     /\ IsSubstring(Get(t.message_pattern), lastMsg'.text)))]_vars

\* Reached: a substring trigger that fired on a text which holds its pattern
\* at the end, after the same letter in the other case.
C10_Witness ==
    /\ lastOp = "evaluate_message"
    /\ Len(triggers) = 1
    /\ triggers[1].enabled /\ ~triggers[1].pattern_is_regex
    /\ triggers[1].message_pattern = Some(<<"a">>)
    /\ lastMsg.text = <<"A", "a">>
    /\ Len(fired_events) = 1

\* ------------------------------------------------------------------------
\* SpecThreshold: the trigger temp > 30 against every parsed field value
\* ------------------------------------------------------------------------
RawAlphabet == {"0", "3", "-", "."}
RawValues == SeqsUpTo(RawAlphabet, MaxRawLen)
TypeChars == {Some("u"), Some("i"), Some("f"), None}

ThresholdCatalog ==
    { threshold_trigger("t1", "temp high", Some("temp"), Some(">"), Some(30 * FP), None),
      threshold_trigger("t2", "volt high", Some("volt"), Some(">"), Some(30 * FP), None) }

\* The records _parse_line builds from the lines "" and "temp[:type]=raw".
ThresholdShapes ==
    { Msg("INFO", <<>>, NoFields) }
    \cup { Msg("INFO", <<>>, OneField("temp", ParseField(tc, raw))) :
             tc \in TypeChars, raw \in RawValues }

\* Whether a threshold trigger fires depends on the trigger and the msg
\* alone: one evaluate_message call per behaviour.
NextThreshold == NextOver(ThresholdCatalog, ThresholdShapes, {VISUAL_ALERT}, Instants, 1)

SpecThreshold == Init /\ [][NextThreshold]_vars

IsTempAbove30(t) ==
    /\ t.enabled
    /\ t.trigger_type = VARIABLE_THRESHOLD
    /\ t.variable_name = Some("temp")
    /\ t.comparison = Some(">")
    /\ t.threshold_value = Some(30 * FP)

\* C2 as stated: the enabled trigger temp > 30 fires iff the record has temp
\* and the parser converted its value to a number above 30; it does not fire
\* when temp is absent nor when the parser kept the raw string.
C2_FiresIffParserNumberAbove30 ==
    [][EvaluateStep =>
        \A i \in 1..Len(triggers) :
            IsTempAbove30(triggers[i]) =>
                (Len(EventsOf(fired_events', triggers[i].trigger_id)) = 1
                 <=> (/\ "temp" \in DOMAIN lastMsg'.data_fields
                      /\ IsNum(lastMsg'.data_fields["temp"].value)
                      /\ FloatOf(lastMsg'.data_fields["temp"].value) > 30 * FP))]_vars

\* C2 amended: the enabled trigger temp > 30 fires iff the record has temp
\* and the value it holds reads as a number above 30, where a raw string that
\* the parser kept (after a failed conversion, or for an untyped field) reads
\* as the number float() makes of it; it does not fire when temp is absent or
\* the held raw string is not accepted by float().
C2_FiresIffHeldValueAbove30 ==
    [][EvaluateStep =>
        \A i \in 1..Len(triggers) :
            IsTempAbove30(triggers[i]) =>
                (Len(EventsOf(fired_events', triggers[i].trigger_id)) = 1
                 <=> /\ "temp" \in DOMAIN lastMsg'.data_fields
                     /\ LET held == lastMsg'.data_fields["temp"].value
                        IN  \/ IsNum(held) /\ FloatOf(held) > 30 * FP
                            \/ /\ ~IsNum(held)
                               /\ FloatParses(held.raw)
                               /\ FloatVal(held.raw) > 30 * FP)]_vars

\* Reached: the trigger fired on temp:u=33. , whose conversion to uint failed
\* and whose value the parser kept as the raw string "33.".
C2_Witness ==
    /\ lastOp = "evaluate_message"
    /\ Len(fired_events) = 1
    /\ fired_events[1].trigger_id = "t1"
    /\ lastMsg.data_fields["temp"] = [value |-> StrValue(<<"3", "3", ".">>), type |-> "uint"]

\* ------------------------------------------------------------------------
\* SpecWindow: rate and error-count triggers with short and long windows
\* ------------------------------------------------------------------------
\* rate_threshold 0.5 msg/s over 2 s and 0.003 msg/s over 400 s: both fire
\* from the second record in the window on.  threshold_value 1 error: fires
\* from the second ERROR record in the window on.
WindowCatalog ==
    { rate_trigger("t1", "busy", Some(FP \div 2), 2, None),
      rate_trigger("t1", "busy long", Some((3 * FP) \div 1000), 400, None),
      error_trigger("t2", "errors", Some(1 * FP), 2, None),
      error_trigger("t2", "errors long", Some(1 * FP), 400, None) }

WindowShapes == { Msg(lv, <<>>, NoFields) : lv \in {"INFO", "ERROR"} }

WindowInstants == {0, 1, 3, 301}

NextWindow == NextOver(WindowCatalog, WindowShapes, {VISUAL_ALERT}, WindowInstants, MaxEvals)

SpecWindow == Init /\ [][NextWindow]_vars

\* The records evaluated so far, the current one included, whose timestamp
\* lies in the trailing W seconds of the current record's timestamp T.
Trailing(records, T, W) ==
    {k \in 1..Len(records) : records[k].timestamp >= T - W /\ records[k].timestamp <= T}

\* C3: an enabled rate trigger with threshold R and window W fires in an
\* evaluate_message call iff the number of records evaluated so far with a
\* timestamp in the trailing W seconds exceeds R * W, in every call (no
\* debouncing).
C3_RateFiresIffTrailingCountExceeds ==
    [][EvaluateStep =>
        \A i \in 1..Len(triggers) :
            LET t == triggers[i] IN
            (t.enabled /\ t.trigger_type = MESSAGE_RATE)
            => (Len(EventsOf(fired_events', t.trigger_id)) = 1
                <=> Cardinality(Trailing(seen', lastMsg'.timestamp, t.rate_window)) * FP
                      > Get(t.rate_threshold) * t.rate_window)]_vars

\* C4: an enabled error-count trigger fires in an evaluate_message call iff
\* the number of ERROR records evaluated so far with timestamp >= T -
\* rate_window exceeds threshold_value; records of other levels do not count.
C4_ErrorFiresIffTrailingErrorsExceed ==
    [][EvaluateStep =>
        \A i \in 1..Len(triggers) :
            LET t == triggers[i] IN
            (t.enabled /\ t.trigger_type = ERROR_COUNT)
            => (Len(EventsOf(fired_events', t.trigger_id)) = 1
                <=> Cardinality({k \in 1..Len(seen') :
                                    /\ seen'[k].level = "ERROR"
                                    /\ seen'[k].timestamp >= lastMsg'.timestamp - t.rate_window}) * FP
                      > Get(t.threshold_value))]_vars

\* ------------------------------------------------------------------------
\* SpecHistory: an engine whose history is two events short of max_history
\* ------------------------------------------------------------------------
\* The engine held the two triggers of ActionCatalog, evaluated PriorCalls
\* records with the text "ab" stamped 0 at host time 0, each of which fired
\* both triggers, and was then cleared with clear_triggers.
PriorCalls == (max_history - 2) \div 2

PriorEvent(k) ==
    IF k % 2 = 1
    THEN [trigger_id |-> "t1", trigger_name |-> "has a", timestamp |-> 0,
          message |-> "Text contains"]
    ELSE [trigger_id |-> "t2", trigger_name |-> "has b", timestamp |-> 0,
          message |-> "Text contains"]

InitHistory ==
    /\ triggers = <<>>
    /\ history = [k \in 1..(2 * PriorCalls) |-> PriorEvent(k)]
    /\ message_timestamps = [k \in 1..PriorCalls |-> 0]
    /\ error_count_window = <<>>
    /\ handlers = {}
    /\ now = 0
    /\ fired_events = <<>>
    /\ raised = "none"
    /\ calls = <<>>
    /\ lastOp = "other"
    /\ lastMsg = NoMsg
    /\ seen = <<>>
    /\ fired = [k \in 1..(2 * PriorCalls) |-> PriorEvent(k)]
    /\ InitElsewhere

HistoryShapes == { Msg("INFO", tx, NoFields) : tx \in {<<"a">>, <<"a", "b">>} }

\* Two calls that fire both triggers take history from max_history - 2 to
\* max_history + 2 appended events.
NextHistory ==
    NextOver(ActionCatalog, HistoryShapes, {VISUAL_ALERT}, Instants, 2)

SpecHistory == InitHistory /\ [][NextHistory]_vars

LastOf(seq, n) == IF Len(seq) <= n THEN seq ELSE SubSeq(seq, Len(seq) - n + 1, Len(seq))

\* C1: history never holds more than max_history (1000) events and always
\* equals the most recent (at most 1000) fired events in firing order: the
\* event evicted by a firing is the oldest one.
C1_HistoryIsLastFired ==
    /\ Len(history) <= max_history
    /\ history = LastOf(fired, max_history)

\* Reached: a call whose firings took history over 1000 events, so that
\* events were evicted, and left events of two different timestamps in it.
C1_Witness ==
    /\ lastOp = "evaluate_message"
    /\ Len(fired) > max_history
    /\ Len(history) = max_history
    /\ fired_events # <<>>
    /\ history[max_history].timestamp = 1

\* ------------------------------------------------------------------------
\* save_triggers and load_triggers
\* ------------------------------------------------------------------------
\* A document is what json.load makes of the file: `decodes` is FALSE for a
\* file that is not JSON; `triggers` is the list under the key "triggers".
\* An entry of that list is a dict with the keys of the dataclass; `absent`
\* names the keys it lacks and `unexpected` tells that it has a key that is
\* no field of the dataclass.
Document(entries) == [decodes |-> TRUE, triggers |-> entries]
Undecodable == [decodes |-> FALSE, triggers |-> <<>>]

\* Mutation of save_entry: last_fired is not written.
save_entry_WithoutLastFired(trigger) ==
    [trigger_id |-> trigger.trigger_id, name |-> trigger.name,
     enabled |-> trigger.enabled, trigger_type |-> trigger.trigger_type,
     variable_name |-> trigger.variable_name,
     comparison |-> IF IsNone(trigger.comparison) THEN None ELSE trigger.comparison,
     threshold_value |-> trigger.threshold_value,
     message_pattern |-> trigger.message_pattern,
     pattern_is_regex |-> trigger.pattern_is_regex,
     rate_threshold |-> trigger.rate_threshold, rate_window |-> trigger.rate_window,
     actions |-> [k \in 1..Len(trigger.actions) |-> trigger.actions[k]],
     created_at |-> trigger.created_at, fire_count |-> trigger.fire_count,
     last_fired |-> None,
     absent |-> {}, unexpected |-> FALSE]

\* {**asdict(trigger), "trigger_type": ..., "comparison": ..., "actions": ...}
save_entry(trigger) ==
    [trigger_id |-> trigger.trigger_id, name |-> trigger.name,
     enabled |-> trigger.enabled, trigger_type |-> trigger.trigger_type,
     variable_name |-> trigger.variable_name,
     comparison |-> IF IsNone(trigger.comparison) THEN None ELSE trigger.comparison,
     threshold_value |-> trigger.threshold_value,
     message_pattern |-> trigger.message_pattern,
     pattern_is_regex |-> trigger.pattern_is_regex,
     rate_threshold |-> trigger.rate_threshold, rate_window |-> trigger.rate_window,
     actions |-> [k \in 1..Len(trigger.actions) |-> trigger.actions[k]],
     created_at |-> trigger.created_at, fire_count |-> trigger.fire_count,
     last_fired |-> trigger.last_fired,
     absent |-> {}, unexpected |-> FALSE]

save_doc(trigs) == Document([i \in 1..Len(trigs) |-> save_entry(trigs[i])])

\* trigger_data.get("comparison") is truthy: neither None nor "".
Truthy(comparison) == ~IsNone(comparison) /\ Get(comparison) # ""

\* trigger_data.get("actions", [])
actions_of(entry) == IF "actions" \in entry.absent THEN <<>> ELSE entry.actions

Loaded(trigger) == [status |-> "ok", trigger |-> trigger]

\* The body of the loop of load_triggers for one entry, up to the constructor.
load_entry(entry, clock) ==
    IF "trigger_type" \in entry.absent THEN Raise("KeyError")
    ELSE IF entry.trigger_type \notin TriggerType THEN Raise("ValueError")
    ELSE IF Truthy(entry.comparison) /\ Get(entry.comparison) \notin TriggerComparison
    THEN Raise("ValueError")
    ELSE IF \E k \in 1..Len(actions_of(entry)) : actions_of(entry)[k] \notin TriggerAction
    THEN Raise("ValueError")
    ELSE IF entry.unexpected \/ entry.absent \cap {"trigger_id", "name", "enabled"} # {}
    THEN Raise("TypeError")
    ELSE Loaded(dataclass_init([entry EXCEPT !.actions = Some(actions_of(entry))], clock))

\* The loop of load_triggers from the i-th entry on, over the set built so
\* far; an exception ends the loop where it is raised.
RECURSIVE LoadLoop(_, _, _, _)
LoadLoop(i, entries, trigs, clock) ==
    IF i > Len(entries) THEN [triggers |-> trigs, raised |-> "none"]
    ELSE LET out == load_entry(entries[i], clock)
         IN  IF out.status = "raise" THEN [triggers |-> trigs, raised |-> out.exc]
             ELSE LoadLoop(i + 1, entries, dict_set(trigs, out.trigger), clock)

\* json.load(f); self.triggers.clear(); the loop
load_document(doc, trigs, clock) ==
    IF ~doc.decodes THEN [triggers |-> trigs, raised |-> "JSONDecodeError"]
    ELSE LoadLoop(1, doc.triggers, <<>>, clock)

save_triggers ==
    /\ disk' = Some(save_doc(triggers))
    /\ Traced("save_triggers")
    /\ NoResult
    /\ UNCHANGED <<triggers, history, message_timestamps, error_count_window,
                   handlers, now, seen, fired, line, parsed, backend_state>>

load_triggers ==
    /\ IF IsNone(disk)
       THEN /\ triggers' = triggers
            /\ raised' = "none"
            /\ Traced("load_triggers:missing")
       ELSE LET out == load_document(Get(disk), triggers, now)
            IN  /\ triggers' = out.triggers
                /\ raised' = out.raised
                /\ Traced("load_triggers")
    /\ fired_events' = <<>>
    /\ calls' = <<>>
    /\ lastMsg' = NoMsg
    /\ lastOp' = "other"
    /\ UNCHANGED <<history, message_timestamps, error_count_window, handlers, now,
                   seen, fired, disk, line, parsed, backend_state>>

\* Someone else writes the file, or removes it.
write_file(doc) ==
    /\ disk # Some(doc)
    /\ disk' = Some(doc)
    /\ Traced("write_file")
    /\ NoResult
    /\ UNCHANGED <<triggers, history, message_timestamps, error_count_window,
                   handlers, now, seen, fired, line, parsed, backend_state>>

delete_file ==
    /\ ~IsNone(disk)
    /\ disk' = None
    /\ Traced("delete_file")
    /\ NoResult
    /\ UNCHANGED <<triggers, history, message_timestamps, error_count_window,
                   handlers, now, seen, fired, line, parsed, backend_state>>

\* ------------------------------------------------------------------------
\* SpecPersist: an engine, its configuration file and a second writer
\* ------------------------------------------------------------------------
\* A threshold trigger made with the default actions, and a pattern trigger as
\* the dialog makes it when no action box is checked.
PersistCatalog ==
    { threshold_trigger("t1", "temp high", Some("temp"), Some(">"), Some(30 * FP), None),
      pattern_trigger("t2", "has a", Some(<<"a">>), FALSE, Some(<<>>)) }

PersistShapes ==
    { Msg("ERROR", <<"a">>, OneField("temp", ParseField(Some("f"), <<"3", "3">>))) }

ValidEntry1 ==
    save_entry(threshold_trigger("t1", "temp high", Some("temp"), Some(">"),
                                 Some(30 * FP), None))
ValidEntry2 ==
    save_entry(pattern_trigger("t2", "has a", Some(<<"a">>), FALSE,
                               Some(<<AUDIO_ALERT>>)))

\* Files written by hand: an entry that leaves created_at to the loader and
\* has no "actions" key; a valid entry followed by one with an unknown
\* trigger_type tag; an entry with an unexpected key; an entry without "name"
\* after a valid one; an unknown action tag; a file that is not JSON.
ForeignFiles ==
    { Document(<<[ValidEntry1 EXCEPT !.created_at = 0, !.absent = {"actions"}]>>),
      Document(<<ValidEntry2, [ValidEntry1 EXCEPT !.trigger_type = "bogus"]>>),
      Document(<<[ValidEntry1 EXCEPT !.unexpected = TRUE]>>),
      Document(<<ValidEntry1, [ValidEntry2 EXCEPT !.absent = {"name"}]>>),
      Document(<<[ValidEntry2 EXCEPT !.actions = <<"bogus">>]>>),
      Undecodable }

InitPersist ==
    /\ triggers = <<>>
    /\ history = <<>>
    /\ message_timestamps = <<>>
    /\ error_count_window = <<>>
    /\ handlers = {}
    /\ now = 0
    /\ fired_events = <<>>
    /\ raised = "none"
    /\ calls = <<>>
    /\ lastOp = "other"
    /\ lastMsg = NoMsg
    /\ seen = <<>>
    /\ fired = <<>>
    /\ disk = None
    /\ op = "start"
    /\ line = <<>>
    /\ parsed = None
    /\ NeverStarted("demo")

NextPersist ==
    \/ NextOver(PersistCatalog, PersistShapes, {VISUAL_ALERT}, Instants, 1)
    \/ save_triggers
    \/ load_triggers
    \/ \E doc \in ForeignFiles : write_file(doc)
    \/ delete_file

SpecPersist == InitPersist /\ [][NextPersist]_vars

\* C11: save followed by load into a fresh engine reproduces the trigger set.
\* Whenever save_triggers has written the file, loading that file into an
\* engine with no triggers, at any later instant, raises nothing and gives
\* the triggers the saving engine holds: the same ids in the same order and
\* the same value of every field (name, enabled, kind and its parameters,
\* comparator, action list, created_at, fire_count, last_fired).
C11_SaveLoadRoundTrip ==
    [][op' = "save_triggers" =>
        \A clock \in Instants :
            load_document(Get(disk'), <<>>, clock)
                = [triggers |-> triggers', raised |-> "none"]]_vars

\* Reached: a load_triggers call, made after the clock advanced, that rebuilt
\* from the saved file a set of two triggers, one of them without comparator
\* and with an empty action list, one of them with a recorded firing.
C11_Witness ==
    /\ op = "load_triggers"
    /\ raised = "none"
    /\ now = 1
    /\ Len(triggers) = 2
    /\ disk = Some(save_doc(triggers))
    /\ \E i \in 1..2 : IsNone(triggers[i].comparison) /\ triggers[i].actions = <<>>
    /\ \E i \in 1..2 : triggers[i].fire_count = 1 /\ triggers[i].last_fired = Some(0)

\* The trigger set a document describes, when every entry of it is valid.
Describes(doc, clock) ==
    /\ doc.decodes
    /\ \A i \in 1..Len(doc.triggers) : load_entry(doc.triggers[i], clock).status = "ok"
Described(doc, clock) ==
    [i \in 1..Len(doc.triggers) |-> load_entry(doc.triggers[i], clock).trigger]

\* C12: load replaces the trigger set atomically.  After a load_triggers call
\* on an existing file, whether it returned or raised, the engine holds
\* either exactly the set the file describes or exactly the set it held
\* before the call.
C12_LoadAtomic ==
    [][op' = "load_triggers" =>
        \/ triggers' = triggers
        \/ /\ Describes(Get(disk), now)
           /\ triggers' = Described(Get(disk), now)]_vars

\* C13: the three no-op calls change nothing and raise nothing.
\* remove_trigger and enable_trigger with an id the engine does not hold, and
\* load_triggers when the file does not exist, leave the trigger set, the
\* history and both rolling windows as they were.
C13_NoOpCalls ==
    [][op' \in {"remove_trigger:unknown", "enable_trigger:unknown",
                "load_triggers:missing"} =>
        /\ raised' = "none"
        /\ UNCHANGED <<triggers, history, message_timestamps,
                       error_count_window>>]_vars

\* Reached: remove_trigger with an unknown id on an engine that holds a
\* trigger that has fired, a history and both windows non-empty.
C13_Witness ==
    /\ op = "remove_trigger:unknown"
    /\ Len(triggers) = 1
    /\ triggers[1].fire_count = 1
    /\ history # <<>>
    /\ message_timestamps # <<>>
    /\ error_count_window # <<>>

\* C14: every trigger the engine holds has a non-empty action list.
C14_ActionsNonEmpty ==
    \A i \in 1..Len(triggers) : triggers[i].actions # <<>>

\* ------------------------------------------------------------------------
\* Python str methods used by the line parser
\* ------------------------------------------------------------------------
Whitespace == {" ", "\t"}

lowercase == <<"a", "b", "c", "d", "e", "f", "g", "h", "i", "j", "k", "l", "m", "n", "o", "p", "q", "r", "s", "t", "u", "v", "w", "x", "y", "z">>
uppercase == <<"A", "B", "C", "D", "E", "F", "G", "H", "I", "J", "K", "L", "M", "N", "O", "P", "Q", "R", "S", "T", "U", "V", "W", "X", "Y", "Z">>
UpperTable ==
    [c \in {lowercase[i] : i \in 1..Len(lowercase)} |->
        uppercase[CHOOSE i \in 1..Len(lowercase) : lowercase[i] = c]]
upper_char(c) == IF c \in DOMAIN UpperTable THEN UpperTable[c] ELSE c
upper(s) == [i \in 1..Len(s) |-> upper_char(s[i])]

startswith(s, p) == Len(p) <= Len(s) /\ SubSeq(s, 1, Len(p)) = p

MinOf(S) == CHOOSE x \in S : \A y \in S : x <= y
MaxOf(S) == CHOOSE x \in S : \A y \in S : x >= y
Positions(s, c) == {i \in 1..Len(s) : s[i] = c}
Blanks(s) == {i \in 1..Len(s) : s[i] \in Whitespace}
Solids(s) == {i \in 1..Len(s) : s[i] \notin Whitespace}

\* s.strip()
strip(s) == IF Solids(s) = {} THEN <<>> ELSE SubSeq(s, MinOf(Solids(s)), MaxOf(Solids(s)))

\* s.split(): the maximal runs of non-whitespace characters, in order
RECURSIVE split(_)
split(s) ==
    IF Solids(s) = {} THEN <<>>
    ELSE LET from == MinOf(Solids(s))
             stops == {i \in Blanks(s) : i > from}
             to == IF stops = {} THEN Len(s) ELSE MinOf(stops) - 1
         IN  <<SubSeq(s, from, to)>> \o split(SubSeq(s, to + 1, Len(s)))

\* " ".join(tokens)
RECURSIVE join(_)
join(tokens) ==
    IF tokens = <<>> THEN <<>>
    ELSE IF Len(tokens) = 1 THEN tokens[1]
    ELSE tokens[1] \o <<" ">> \o join(Tail(tokens))

\* s.partition(c) and s.rpartition(c), for a c that occurs in s
partition(s, c) ==
    LET k == MinOf(Positions(s, c))
    IN  [head |-> SubSeq(s, 1, k - 1), tail |-> SubSeq(s, k + 1, Len(s))]
rpartition(s, c) ==
    LET k == MaxOf(Positions(s, c))
    IN  [head |-> SubSeq(s, 1, k - 1), tail |-> SubSeq(s, k + 1, Len(s))]

\* ------------------------------------------------------------------------
\* SerialBackend: the line parser
\* ------------------------------------------------------------------------
DATA_TYPE ==
    { [name |-> "ERROR", chars |-> <<"E", "R", "R", "O", "R">>],
      [name |-> "WARNING", chars |-> <<"W", "A", "R", "N", "I", "N", "G">>],
      [name |-> "INFO", chars |-> <<"I", "N", "F", "O">>],
      [name |-> "DEBUG", chars |-> <<"D", "E", "B", "U", "G">>] }

\* Mutation of prefixes: the bare tag is a prefix form too.
prefixes_BareTag(tag) ==
    { <<"[">> \o tag.chars \o <<"]">>, tag.chars \o <<":">>, tag.chars \o <<" ">>,
      tag.chars }

\* (f"[{tag}]", f"{tag}:", f"{tag} ")
prefixes(tag) ==
    { <<"[">> \o tag.chars \o <<"]">>, tag.chars \o <<":">>, tag.chars \o <<" ">> }

\* The (tag, prefix) pairs whose prefix starts line.upper().  No tag is the
\* start of another and the three prefixes of a tag differ at or right after
\* the tag, so at most one pair matches and the order of the loops is moot.
prefix_hits(ln) ==
    { h \in UNION { {<<tag, q>> : q \in prefixes(tag)} : tag \in DATA_TYPE } :
        startswith(upper(ln), h[2]) }

\* _parse_data_fields: the dict built from the tokens that hold "=".
token_name_part(token) == partition(token, "=").head
token_raw_value(token) == partition(token, "=").tail
token_typed(token) == Positions(token_name_part(token), ":") # {}
token_type_char(token) ==
    IF token_typed(token) THEN rpartition(token_name_part(token), ":").tail ELSE None
token_var_name(token) ==
    IF token_typed(token) THEN rpartition(token_name_part(token), ":").head
    ELSE token_name_part(token)

RECURSIVE fields_loop(_, _, _)
fields_loop(tokens, i, fields) ==
    IF i > Len(tokens) THEN fields
    ELSE IF Positions(tokens[i], "=") = {} THEN fields_loop(tokens, i + 1, fields)
    ELSE fields_loop(tokens, i + 1,
            (token_var_name(tokens[i])
                :> ParseField(token_type_char(tokens[i]), token_raw_value(tokens[i])))
            @@ fields)

_parse_data_fields(text) == fields_loop(split(text), 1, <<>>)

\* _extract_message_field: re.search(r':m"([^"]*)"', text), leftmost match.
message_opens(text) ==
    { k \in 1..(Len(text) - 3) :
        /\ SubSeq(text, k, k + 2) = <<":", "m", "\"">>
        /\ \E j \in (k + 3)..Len(text) : text[j] = "\"" }

_extract_message_field(text) ==
    IF message_opens(text) = {} THEN [message |-> None, text |-> text]
    ELSE LET start == MinOf(message_opens(text))
             close == MinOf({j \in (start + 3)..Len(text) : text[j] = "\""})
         IN  [message |-> Some(SubSeq(text, start + 3, close - 1)),
              text |-> strip(SubSeq(text, 1, start - 1)
                             \o SubSeq(text, close + 1, Len(text)))]

\* _extract_timestamp_field: the loop over the tokens.
is_t_token(token) ==
    /\ Positions(token, "=") # {}
    /\ token_typed(token)
    /\ token_type_char(token) = <<"t">>

\* Mutation of timestamp_loop: a :t= token that fails int() is dropped.
RECURSIVE timestamp_loop_DroppingFailed(_, _, _, _)
timestamp_loop_DroppingFailed(tokens, i, device_ts, remaining) ==
    IF i > Len(tokens) THEN [device_ts |-> device_ts, text |-> join(remaining)]
    ELSE IF is_t_token(tokens[i]) /\ IsNone(device_ts)
    THEN IF IntParses(token_raw_value(tokens[i]))
         THEN timestamp_loop_DroppingFailed(tokens, i + 1,
                  Some(Mask32(abs_int(IntVal(token_raw_value(tokens[i]))))), remaining)
         ELSE timestamp_loop_DroppingFailed(tokens, i + 1, device_ts, remaining)
    ELSE timestamp_loop_DroppingFailed(tokens, i + 1, device_ts,
                                       Append(remaining, tokens[i]))

RECURSIVE timestamp_loop(_, _, _, _)
timestamp_loop(tokens, i, device_ts, remaining) ==
    IF i > Len(tokens) THEN [device_ts |-> device_ts, text |-> join(remaining)]
    ELSE IF is_t_token(tokens[i]) /\ IsNone(device_ts)
    THEN IF IntParses(token_raw_value(tokens[i]))
         THEN timestamp_loop(tokens, i + 1,
                  Some(Mask32(abs_int(IntVal(token_raw_value(tokens[i]))))), remaining)
         ELSE timestamp_loop(tokens, i + 1, device_ts, Append(remaining, tokens[i]))
    ELSE timestamp_loop(tokens, i + 1, device_ts, Append(remaining, tokens[i]))

_extract_timestamp_field(text) == timestamp_loop(split(text), 1, None, <<>>)

\* _parse_line from the text left after the level prefix on.  The keys
\* device_timestamp and data_fields are absent from the dict when
\* device_timestamp is None and data_fields is empty.
parse_body(level, text, clock) ==
    LET m == _extract_message_field(text)
        t == _extract_timestamp_field(m.text)
    IN  [timestamp |-> clock,
         level |-> level,
         text |-> IF ~IsNone(m.message) /\ Get(m.message) # <<>>
                  THEN Get(m.message) ELSE t.text,
         device_timestamp |-> t.device_ts,
         data_fields |-> _parse_data_fields(t.text)]

\* level and text after the loop over the tags
level_of(ln) ==
    IF prefix_hits(ln) = {} THEN "INFO"
    ELSE (CHOOSE h \in prefix_hits(ln) : TRUE)[1].name
after_prefix(ln) ==
    IF prefix_hits(ln) = {} THEN ln
    ELSE strip(SubSeq(ln, Len((CHOOSE h \in prefix_hits(ln) : TRUE)[2]) + 1, Len(ln)))

_parse_line(ln, clock) == parse_body(level_of(ln), after_prefix(ln), clock)

\* The loop `for tag in SerialBackend.DATA_TYPE` in one iteration order of
\* the set: the orders a build can take.
TagOrders ==
    { order \in [1..Cardinality(DATA_TYPE) -> DATA_TYPE] :
        \A i, j \in 1..Cardinality(DATA_TYPE) : i # j => order[i] # order[j] }

\* Mutation of tag_step: a tag that matches nothing resets level and text.
tag_step_ResetOnMiss(acc, tag, ln) ==
    IF \A q \in prefixes(tag) : ~startswith(upper(ln), q)
    THEN [level |-> "INFO", text |-> ln]
    ELSE [level |-> tag.name,
          text |-> strip(SubSeq(ln, Len(CHOOSE q \in prefixes(tag) :
                                            startswith(upper(ln), q)) + 1, Len(ln)))]

\* The body of the loop for one tag: the first prefix that starts
\* line.upper() fixes level and text; without one they stay as they are.
tag_step(acc, tag, ln) ==
    LET upper_line == upper(ln)
    IN  IF \A q \in prefixes(tag) : ~startswith(upper_line, q)
        THEN acc
        ELSE [level |-> tag.name,
              text |-> strip(SubSeq(ln, Len(CHOOSE q \in prefixes(tag) :
                                                startswith(upper_line, q)) + 1, Len(ln)))]

RECURSIVE tag_loop(_, _, _, _)
tag_loop(order, i, acc, ln) ==
    IF i > Len(order) THEN acc
    ELSE tag_loop(order, i + 1, tag_step(acc, order[i], ln), ln)

\* A dict with the keys timestamp, level and text only.
plain_record(level, text, clock) ==
    [timestamp |-> clock, level |-> level, text |-> text,
     device_timestamp |-> None, data_fields |-> <<>>]

\* ------------------------------------------------------------------------
\* The producers of records
\* ------------------------------------------------------------------------
made_a_record ==
    /\ NoResult
    /\ UNCHANGED <<triggers, history, message_timestamps, error_count_window,
                   handlers, now, seen, fired, disk, backend_state>>

\* _reader_loop: the line read from the port, decoded and stripped, is parsed
\* and queued.
_reader_loop ==
    /\ IsNone(parsed)
    /\ parsed' = Some(_parse_line(line, now))
    /\ line' = line
    /\ Traced("_reader_loop")
    /\ made_a_record

\* _reader_loop, the two except branches: an ERROR record is queued.
reader_error(text) ==
    /\ IsNone(parsed)
    /\ line = <<>>
    /\ parsed' = Some(plain_record("ERROR", text, now))
    /\ line' = line
    /\ Traced("reader_error")
    /\ made_a_record

\* DemoSerialBackend._producer, the simple messages.
demo_simple(choice) ==
    /\ IsNone(parsed)
    /\ line = <<>>
    /\ parsed' = Some(plain_record(choice[1], choice[2], now))
    /\ line' = line
    /\ Traced("demo_simple")
    /\ made_a_record

\* DemoSerialBackend._producer, the structured messages: the formatted
\* template goes through _parse_line.
demo_structured ==
    /\ IsNone(parsed)
    /\ parsed' = Some(_parse_line(line, now))
    /\ line' = line
    /\ Traced("demo_structured")
    /\ made_a_record

\* ------------------------------------------------------------------------
\* SpecParse: the records the producers make of every line
\* ------------------------------------------------------------------------
MaxTokens == 2       \* pieces of a line after its level prefix

\* The (level, text) pairs of the simple demo messages (the degree sign is
\* left out of two texts).
_DEMO_MESSAGES ==
    { <<"INFO",
        <<"R", "e", "a", "d", "i", "n", "g", " ", "t", "e", "m", "p", "e",
          "r", "a", "t", "u", "r", "e", ":", " ", "2", "3", ".", "4", " ",
          "C">> >>,
      <<"INFO",
        <<"R", "e", "a", "d", "i", "n", "g", " ", "h", "u", "m", "i", "d",
          "i", "t", "y", ":", " ", "6", "1", " ", "%">> >>,
      <<"WARNING",
        <<"B", "a", "t", "t", "e", "r", "y", " ", "v", "o", "l", "t", "a",
          "g", "e", " ", "l", "o", "w", ":", " ", "3", ".", "2", "1", " ",
          "V">> >>,
      <<"DEBUG",
        <<"A", "D", "C", " ", "s", "a", "m", "p", "l", "e", " ", "b", "u",
          "f", "f", "e", "r", " ", "f", "l", "u", "s", "h", "e", "d">> >>,
      <<"ERROR",
        <<"C", "R", "C", " ", "m", "i", "s", "m", "a", "t", "c", "h", " ",
          "o", "n", " ", "p", "a", "c", "k", "e", "t", " ", "#", "1", "0",
          "4", "2">> >>,
      <<"INFO",
        <<"U", "p", "t", "i", "m", "e", ":", " ", "0", "0", ":", "4", "2",
          ":", "1", "7">> >>,
      <<"INFO",
        <<"R", "S", "S", "I", ":", " ", "-", "6", "7", " ", "d", "B", "m">> >>,
      <<"WARNING",
        <<"T", "e", "m", "p", "e", "r", "a", "t", "u", "r", "e", " ", "a",
          "b", "o", "v", "e", " ", "t", "h", "r", "e", "s", "h", "o", "l",
          "d", ":", " ", "3", "8", ".", "1", " ", "C">> >>,
      <<"ERROR",
        <<"I", "2", "C", " ", "N", "A", "C", "K", " ", "f", "r", "o", "m",
          " ", "a", "d", "d", "r", "e", "s", "s", " ", "0", "x", "4", "8">> >>,
      <<"DEBUG",
        <<"E", "n", "t", "e", "r", "i", "n", "g", " ", "l", "o", "w", "-",
          "p", "o", "w", "e", "r", " ", "m", "o", "d", "e">> >>,
      <<"INFO",
        <<"G", "P", "S", " ", "f", "i", "x", " ", "a", "c", "q", "u", "i",
          "r", "e", "d", ":", " ", "4", "0", ".", "7", "1", "2", "8", " ",
          "N", ",", " ", "7", "4", ".", "0", "0", "6", "0", " ", "W">> >>,
      <<"WARNING",
        <<"F", "l", "a", "s", "h", " ", "w", "r", "i", "t", "e", " ", "n",
          "e", "a", "r", " ", "s", "e", "c", "t", "o", "r", " ", "l", "i",
          "m", "i", "t">> >>,
      <<"ERROR",
        <<"T", "i", "m", "e", "o", "u", "t", " ", "w", "a", "i", "t", "i",
          "n", "g", " ", "f", "o", "r", " ", "A", "C", "K">> >>,
      <<"INFO",
        <<"P", "a", "c", "k", "e", "t", " ", "T", "X", " ", "c", "o", "u",
          "n", "t", ":", " ", "8", "5", "7", "1">> >>,
      <<"DEBUG",
        <<"H", "e", "a", "p", " ", "f", "r", "e", "e", ":", " ", "3", "4",
          "8", "1", "6", " ", "b", "y", "t", "e", "s">> >> }

\* Two lines that _producer formats from _DEMO_STRUCTURED_MSG_TEMPLATES.
DemoLines ==
    { <<"[", "E", "R", "R", "O", "R", "]", " ", ":", "m", "\"", "C", "o",
        "n", "n", "e", "c", "t", "i", "o", "n", " ", "l", "o", "s", "t",
        "\"", " ", "e", "r", "r", "o", "r", ":", "i", "=", "-", "3", " ",
        "r", "e", "t", "r", "i", "e", "s", ":", "u", "=", "2", " ", ":",
        "t", "=", "1", "2", "3", "4">>,
      <<"[", "I", "N", "F", "O", "]", " ", ":", "m", "\"", "T", "e", "m",
        "p", "e", "r", "a", "t", "u", "r", "e", " ", "r", "e", "a", "d",
        "i", "n", "g", "\"", " ", "t", "e", "m", "p", ":", "f", "=", "2",
        "3", ".", "4", " ", ":", "t", "=", "9", "9", "9", "9">> }

ReaderErrorTexts ==
    { <<"S", "e", "r", "i", "a", "l", " ", "c", "o", "n", "n", "e", "c",
        "t", "i", "o", "n", " ", "l", "o", "s", "t">>,
      <<"R", "e", "a", "d", "e", "r", " ", "e", "r", "r", "o", "r", ":", " ">> }

\* What a line is made of: a level prefix (or none, or something close to
\* one) and pieces separated by one space.
LinePrefixes ==
    { <<>>,
      <<"[", "E", "R", "R", "O", "R", "]", " ">>,
      <<"e", "r", "r", "o", "r", ":">>,
      <<"W", "a", "r", "n", "i", "n", "g", " ">>,
      <<"[", "d", "e", "b", "u", "g", "]">>,
      <<"[", "W", "A", "R", "N", "]", " ">>,
      <<"I", "N", "F", "O">> }
LinePieces ==
    { <<"x">>,
      <<"x", "=", "1">>,
      <<"a", ":", "u", "=", "-", "7">>,
      <<"x", ":", "t", "=", "5">>,
      <<"y", ":", "t", "=", "a", "b">>,
      <<":", "t", "=", "-", "6", "4", "4", "2", "4", "5", "0", "9", "5", "1">>,
      <<"h", ":", "m", "=", "q">>,
      <<":", "m", "\"", "\"">>,
      <<":", "m", "\"", "a", "\"">>,
      <<":", "m", "\"", "a", " ", "b", "\"">>,
      <<":", "m", "\"", "a", "\\", "\"", "b", "\"">>,
      <<":", "m", "\"", "a", "\\", "\\", "b", "\"">> }
PieceLines ==
    { strip(pre \o join(pieces)) :
        pre \in LinePrefixes, pieces \in SeqsUpTo(LinePieces, MaxTokens) }

\* The single-token lines v:<type>=<raw> and v=<raw>.
WideLiterals ==
    { <<"4", "2", "9", "4", "9", "6", "7", "2", "9", "5">>,
      <<"4", "2", "9", "4", "9", "6", "7", "2", "9", "6">>,
      <<"-", "4", "2", "9", "4", "9", "6", "7", "2", "9", "6">>,
      <<"6", "4", "4", "2", "4", "5", "0", "9", "5", "1">>,
      <<"2", "1", "4", "7", "4", "8", "3", "6", "4", "8">>,
      <<"+", "7">>,
      <<"-", "0">> }
FieldSuffixes ==
    { <<":", "u">>, <<":", "i">>, <<":", "f">>, <<":", "t">>, <<":", "s">>,
      <<":", "m">>, <<":", "x">>, <<>> }
\* (The fixed-point floats of the model do not hold float() of a wide literal.)
FieldLines ==
    { <<"v">> \o suffix \o <<"=">> \o raw :
        suffix \in FieldSuffixes, raw \in RawValues }
    \cup { <<"v">> \o suffix \o <<"=">> \o raw :
              suffix \in FieldSuffixes \ {<<":", "f">>}, raw \in WideLiterals }

InitParse ==
    /\ triggers = <<>>
    /\ history = <<>>
    /\ message_timestamps = <<>>
    /\ error_count_window = <<>>
    /\ handlers = {}
    /\ now = 0
    /\ fired_events = <<>>
    /\ raised = "none"
    /\ calls = <<>>
    /\ lastOp = "other"
    /\ lastMsg = NoMsg
    /\ seen = <<>>
    /\ fired = <<>>
    /\ disk = None
    /\ op \in {"serial", "demo"}
    /\ \/ op = "serial" /\ line \in PieceLines \cup FieldLines
       \/ op = "demo" /\ line \in DemoLines \cup {<<>>}
    /\ parsed = None
    /\ NeverStarted(op)

NextParse ==
    \/ op = "serial" /\ _reader_loop
    \/ op = "serial" /\ \E text \in ReaderErrorTexts : reader_error(text)
    \/ op = "demo" /\ \E choice \in _DEMO_MESSAGES : demo_simple(choice)
    \/ op = "demo" /\ line # <<>> /\ demo_structured

SpecParse == InitParse /\ [][NextParse]_vars

\* ------------------------------------------------------------------------
\* Properties of the records
\* ------------------------------------------------------------------------
\* The reader has parsed `line` into the record `parsed`.
ReaderParsed == op = "_reader_loop" /\ ~IsNone(parsed)

TagWords == { <<"E", "R", "R", "O", "R">>, <<"W", "A", "R", "N", "I", "N", "G">>,
              <<"I", "N", "F", "O">>, <<"D", "E", "B", "U", "G">> }
StartsNoCase(ln, word) ==
    Len(word) <= Len(ln) /\ \A i \in 1..Len(word) : upper_char(ln[i]) = word[i]
\* The line starts with [TAG], TAG: or TAG followed by a space, in any case.
HasPrefixForm(ln) ==
    \E w \in TagWords :
        \/ StartsNoCase(ln, <<"[">> \o w \o <<"]">>)
        \/ StartsNoCase(ln, w \o <<":">>)
        \/ StartsNoCase(ln, w \o <<" ">>)

RECURSIVE EscClose(_, _)
EscClose(text, j) ==
    IF j > Len(text) THEN 0
    ELSE IF text[j] = "\\" THEN EscClose(text, j + 2)
    ELSE IF text[j] = "\"" THEN j
    ELSE EscClose(text, j + 1)

EscOpens(text) ==
    { k \in 1..(Len(text) - 3) :
        SubSeq(text, k, k + 2) = <<":", "m", "\"">> /\ EscClose(text, k + 3) > 0 }

\* \" becomes " and \\ becomes \
RECURSIVE Unescape(_)
Unescape(str) ==
    IF str = <<>> THEN <<>>
    ELSE IF Len(str) >= 2 /\ str[1] = "\\" /\ str[2] \in {"\"", "\\"}
    THEN <<str[2]>> \o Unescape(SubSeq(str, 3, Len(str)))
    ELSE <<str[1]>> \o Unescape(Tail(str))

\* C16: message extraction is escape-aware.  For a line that holds
\* :m"<content>", where the content may hold \" and \\, the message text is
\* the content unescaped, the span up to the closing unescaped quote is
\* removed, and timestamp and field parsing see nothing of the content.
C16_EscapeAwareMessage ==
    (ReaderParsed /\ EscOpens(after_prefix(line)) # {}) =>
        LET text == after_prefix(line)
            k == MinOf(EscOpens(text))
            j == EscClose(text, k + 3)
            content == SubSeq(text, k + 3, j - 1)
            rest == strip(SubSeq(text, 1, k - 1) \o SubSeq(text, j + 1, Len(text)))
            t == _extract_timestamp_field(rest)
        IN  /\ content # <<>> => Get(parsed).text = Unescape(content)
            /\ Get(parsed).device_timestamp = t.device_ts
            /\ Get(parsed).data_fields = _parse_data_fields(t.text)

\* An integer literal: an optional sign and one or more digits.
LiteralBody(raw) == IF raw # <<>> /\ raw[1] \in {"-", "+"} THEN Tail(raw) ELSE raw
IsIntLiteral(raw) ==
    LiteralBody(raw) # <<>>
    /\ \A i \in 1..Len(LiteralBody(raw)) : LiteralBody(raw)[i] \in Digits
Magnitude(raw) == WideDigitsVal(LiteralBody(raw))

\* v = n mod 2^32, for a magnitude n
IsMod32(v, n) ==
    /\ ~v.neg
    /\ v.hi \in 0..(Limb - 1) /\ v.lo \in 0..(Limb - 1)
    /\ v.lo = n.lo
    /\ \E q \in 0..(n.hi \div Limb) : n.hi = q * Limb + v.hi

\* A token name:t=<raw>: its first "=" follows ":t".
LooksTimestamp(token) ==
    \E k \in 3..Len(token) :
        /\ token[k] = "=" /\ \A i \in 1..(k - 1) : token[i] # "="
        /\ token[k - 1] = "t" /\ token[k - 2] = ":"
RawOf(token) == SubSeq(token, MinOf(Positions(token, "=")) + 1, Len(token))
IsTimestampForm(token) == LooksTimestamp(token) /\ IsIntLiteral(RawOf(token))

Without(tokens, i) == SubSeq(tokens, 1, i - 1) \o SubSeq(tokens, i + 1, Len(tokens))

\* The text _parse_line hands to timestamp extraction.
HandedToTimestamp(ln) == _extract_message_field(after_prefix(ln)).text

\* C17: device_timestamp is |n| mod 2^32 for the first token of the form
\* name:t=<integer n>, and that token is not handed to field parsing; a :t=
\* token whose value is no integer is handed on and sets nothing; when no
\* token has the form, the record has no device_timestamp.
C17_TimestampExtraction ==
    ReaderParsed =>
        LET tokens == split(HandedToTimestamp(line))
            good == {i \in 1..Len(tokens) : IsTimestampForm(tokens[i])}
            failing == {i \in 1..Len(tokens) :
                          LooksTimestamp(tokens[i]) /\ ~IsTimestampForm(tokens[i])}
        IN  /\ \A i \in failing :
                  token_var_name(tokens[i]) \in DOMAIN Get(parsed).data_fields
            /\ IF good = {}
               THEN /\ IsNone(Get(parsed).device_timestamp)
                    /\ Get(parsed).data_fields = _parse_data_fields(join(tokens))
               ELSE /\ ~IsNone(Get(parsed).device_timestamp)
                    /\ IsMod32(Get(Get(parsed).device_timestamp),
                               Magnitude(RawOf(tokens[MinOf(good)])))
                    /\ Get(parsed).data_fields
                          = _parse_data_fields(join(Without(tokens, MinOf(good))))

\* Reached: the line "y:t=ab :t=-6442450951": the first token fails and stays
\* a field, the second gives 6442450951 mod 2^32 = 2^31 + 7.
C17_Witness ==
    /\ ReaderParsed
    /\ line = <<"y", ":", "t", "=", "a", "b", " ", ":", "t", "=", "-", "6", "4", "4", "2", "4", "5", "0", "9", "5", "1">>
    /\ Get(parsed).device_timestamp = Some(Wide(FALSE, Limb \div 2, 7))
    /\ DOMAIN Get(parsed).data_fields = {<<"y">>}

\* C18: data_fields holds no entry of type timestamp and none of type message.
C18_NoTimestampNoMessageField ==
    ~IsNone(parsed) =>
        \A name \in DOMAIN Get(parsed).data_fields :
            Get(parsed).data_fields[name].type \notin {"timestamp", "message"}

\* The tokens handed to field parsing, and those of them that decide an
\* entry of the dict (the last token of each name).
HandedToFields(ln) == split(_extract_timestamp_field(HandedToTimestamp(ln)).text)
Decides(tokens, i) ==
    /\ Positions(tokens[i], "=") # {}
    /\ \A j \in (i + 1)..Len(tokens) :
          Positions(tokens[j], "=") # {}
          => token_var_name(tokens[j]) # token_var_name(tokens[i])

\* C19: a field with suffix u or t and an integer literal n holds |n| mod 2^32,
\* a value in [0, 2^32 - 1]; a field with suffix i holds n itself, with its
\* sign and unmasked.
C19_UnsignedMaskedSignedKept ==
    ReaderParsed =>
        LET tokens == HandedToFields(line) IN
        \A i \in 1..Len(tokens) :
            (Decides(tokens, i) /\ IsIntLiteral(RawOf(tokens[i]))) =>
                LET held == Get(parsed).data_fields[token_var_name(tokens[i])].value
                    n == Magnitude(RawOf(tokens[i]))
                IN  /\ token_type_char(tokens[i]) \in {<<"u">>, <<"t">>} =>
                          held.kind = "int" /\ IsMod32(held.int, n)
                    /\ token_type_char(tokens[i]) = <<"i">> =>
                          /\ held.kind = "int"
                          /\ held.int.hi = n.hi /\ held.int.lo = n.lo
                          /\ held.int.neg
                                = (RawOf(tokens[i])[1] = "-" /\ (n.hi # 0 \/ n.lo # 0))

\* Reached: v:u=4294967296 (2^32) converted to 0.
C19_Witness ==
    /\ ReaderParsed
    /\ line = <<"v", ":", "u", "=", "4", "2", "9", "4", "9", "6", "7", "2", "9", "6">>
    /\ Get(parsed).data_fields[<<"v">>] = [value |-> IntValue(WideOfNat(0)), type |-> "uint"]

\* C20: field conversion never raises.  A token name:type=raw with type u,
\* i, f or t whose raw does not parse as that type still gives a field, with
\* the raw string as value and the declared type tag; an absent or
\* unrecognised suffix gives type str with the raw string as value.
C20_FailedConversionKeepsRaw ==
    ReaderParsed =>
        /\ raised = "none"
        /\ LET tokens == HandedToFields(line) IN
           \A i \in 1..Len(tokens) :
               Decides(tokens, i) =>
                   LET name == token_var_name(tokens[i])
                       suffix == token_type_char(tokens[i])
                       raw == RawOf(tokens[i])
                       kept(tag) == Get(parsed).data_fields[name]
                                       = [value |-> StrValue(raw), type |-> tag]
                   IN  /\ name \in DOMAIN Get(parsed).data_fields
                       /\ (suffix = <<"u">> /\ ~IsIntLiteral(raw)) => kept("uint")
                       /\ (suffix = <<"i">> /\ ~IsIntLiteral(raw)) => kept("int")
                       /\ (suffix = <<"t">> /\ ~IsIntLiteral(raw)) => kept("timestamp")
                       /\ (suffix = <<"f">> /\ ~FloatParses(raw)) => kept("float")
                       /\ suffix \notin {<<"u">>, <<"i">>, <<"s">>, <<"f">>, <<"t">>, <<"m">>}
                             => kept("str")

\* Reached: v:t=-. kept as the raw string "-." with the type tag timestamp.
C20_Witness ==
    /\ ReaderParsed
    /\ line = <<"v", ":", "t", "=", "-", ".">>
    /\ Get(parsed).data_fields[<<"v">>]
          = [value |-> StrValue(<<"-", ".">>), type |-> "timestamp"]

\* The tokens of the line that are no name[:type]=value tokens.
PlainTokens(text) == SelectSeq(split(text), LAMBDA token : Positions(token, "=") = {})

\* C21: the text of a parsed record is the content of :m"..." whenever such
\* a field was extracted, an empty content included; otherwise it is the
\* trimmed remainder of the line once the level prefix, the timestamp token
\* and every name[:type]=value token are removed, so that a line made only of
\* field tokens gives the empty text.
C21_TextIsMessageOrRemainder ==
    ReaderParsed =>
        LET m == _extract_message_field(after_prefix(line))
        IN  IF ~IsNone(m.message)
            THEN Get(parsed).text = Get(m.message)
            ELSE /\ Get(parsed).text = strip(Get(parsed).text)
                 /\ split(Get(parsed).text) = PlainTokens(after_prefix(line))

\* The (tag, prefix form) pairs that start the line, case ignored.
MatchingForms(ln) ==
    { pair \in TagWords \X {1, 2, 3} :
        StartsNoCase(ln, CASE pair[2] = 1 -> <<"[">> \o pair[1] \o <<"]">>
                           [] pair[2] = 2 -> pair[1] \o <<":">>
                           [] pair[2] = 3 -> pair[1] \o <<" ">>) }

\* C25: level detection is deterministic.  For every line at most one (tag,
\* prefix form) pair matches, and the level and the stripped text after the
\* loop over the level tags, of which _parse_line makes the record, are the
\* same in every iteration order over the set.
C25_LevelDetectionDeterministic ==
    (~IsNone(parsed) /\ op \in {"_reader_loop", "demo_structured"}) =>
        /\ Cardinality(MatchingForms(line)) <= 1
        /\ LET after == [level |-> level_of(line), text |-> after_prefix(line)]
           IN  /\ Get(parsed) = parse_body(after.level, after.text, now)
               /\ \A order \in TagOrders :
                     tag_loop(order, 1, [level |-> "INFO", text |-> line], line) = after

\* Reached: "[ERROR] x" parsed to an ERROR record with text "x".
C25_Witness ==
    /\ ReaderParsed
    /\ line = <<"[", "E", "R", "R", "O", "R", "]", " ", "x">>
    /\ Get(parsed).level = "ERROR"
    /\ Get(parsed).text = <<"x">>
    /\ Cardinality(MatchingForms(line)) = 1

\* ------------------------------------------------------------------------
\* Properties of the rolling windows
\* ------------------------------------------------------------------------
Occurrences(window, ts) == Cardinality({i \in 1..Len(window) : window[i] = ts})
SubMultiset(small, large) ==
    \A i \in 1..Len(small) : Occurrences(small, small[i]) <= Occurrences(large, small[i])

\* SpecPrune: one rate trigger and one error-count trigger, and a host clock
\* that passes 300 seconds.
PruneCatalog ==
    { rate_trigger("t1", "busy", Some(FP \div 2), 2, None),
      error_trigger("t2", "errors", Some(1 * FP), 2, None) }

PruneInstants == {0, 1, 301}

NextPrune == NextOver(PruneCatalog, WindowShapes, {VISUAL_ALERT}, PruneInstants, MaxEvals)

SpecPrune == Init /\ [][NextPrune]_vars

\* C24: after every evaluate_message call both rolling windows hold only
\* timestamps no older than 300 seconds before the host clock at that call,
\* the call adds at most one entry to each window, and the error window is
\* always a sub-multiset of the message window.
C24_WindowsPrunedTo300 ==
    [][/\ SubMultiset(error_count_window', message_timestamps')
       /\ EvaluateStep =>
            /\ \A i \in 1..Len(message_timestamps') : message_timestamps'[i] >= now' - 300
            /\ \A i \in 1..Len(error_count_window') : error_count_window'[i] >= now' - 300
            /\ Len(message_timestamps') <= Len(message_timestamps) + 1
            /\ Len(error_count_window') <= Len(error_count_window) + 1]_vars

\* Reached: an ERROR record stamped 301 evaluated at host time 301, after a
\* record stamped 0 that the call pruned from the message window.
C24_Witness ==
    /\ lastOp = "evaluate_message"
    /\ now = 301
    /\ Len(seen) = 2 /\ seen[1].timestamp = 0
    /\ message_timestamps = <<301>>
    /\ error_count_window = <<301>>

\* The records evaluated before the current call that are stamped ts.
EarlierStamped(ts, levels) ==
    {k \in 1..Len(seen) : seen[k].timestamp = ts /\ seen[k].level \in levels}

\* C29: pruning never removes a window entry that an enabled rate or
\* error-count trigger still needs.  In every evaluate_message call on a
\* record stamped T, for every such trigger with window W, every record
\* evaluated before with a timestamp in [T - W, T] is still in the window
\* the trigger counts over, whatever W is and however far the record
\* timestamps lag the host clock.
C29_PruningKeepsNeededEntries ==
    [][EvaluateStep =>
        \A i \in 1..Len(triggers) :
            LET t == triggers[i]
                T == lastMsg'.timestamp
            IN  \A k \in 1..Len(seen) :
                    LET ts == seen[k].timestamp IN
                    (t.enabled /\ ts >= T - t.rate_window /\ ts <= T) =>
                        /\ t.trigger_type = MESSAGE_RATE =>
                              Occurrences(message_timestamps', ts)
                                 >= Cardinality(EarlierStamped(ts, {"INFO", "ERROR"}))
                        /\ t.trigger_type = ERROR_COUNT =>
                              Occurrences(error_count_window', ts)
                                 >= Cardinality(EarlierStamped(ts, {"ERROR"}))]_vars

\* ------------------------------------------------------------------------
\* SpecCompare: threshold triggers of every comparator on the variable temp
\* ------------------------------------------------------------------------
CompareCatalog ==
    { threshold_trigger("t1", "temp", Some("temp"), Some(cmp), Some(30 * FP), None) :
        cmp \in {"==", ">", "<"} }
    \cup { threshold_trigger("t2", "temp", Some("temp"), Some(cmp), Some(30 * FP), None) :
             cmp \in {"!=", ">=", "<="} }

\* The records _parse_line builds from the lines "", "temp:f=raw" and
\* "temp=raw".
CompareAlphabet == {"0", "3", ".", "n", "a"}
CompareShapes ==
    { Msg("INFO", <<>>, NoFields) }
    \cup { Msg("INFO", <<>>, OneField("temp", ParseField(tc, raw))) :
             tc \in {Some("f"), None}, raw \in SeqsUpTo(CompareAlphabet, MaxRawLen) }

NextCompare == NextOver(CompareCatalog, CompareShapes, {VISUAL_ALERT}, Instants, 1)

SpecCompare == Init /\ [][NextCompare]_vars

\* C26: for a record that carries the variable with a numeric value v and a
\* trigger with threshold t, an == trigger fires iff |v - t| < 1e-6, a !=
\* trigger fires iff |v - t| >= 1e-6, the triggers >, <, >= and <= compare v
\* with t exactly, and of an == and a != trigger that are otherwise the
\* same exactly one fires.  (A comparison with a value that is not a number
\* is false.)
C26_EpsilonComparators ==
    [][EvaluateStep =>
        \A i \in 1..Len(triggers) :
            LET t == triggers[i]
                held == lastMsg'.data_fields["temp"].value
                Fires(id) == Len(EventsOf(fired_events', id)) = 1
            IN  (/\ t.enabled /\ t.trigger_type = VARIABLE_THRESHOLD
                 /\ "temp" \in DOMAIN lastMsg'.data_fields
                 /\ FloatOK(held)) =>
                    LET number == ~FloatIsNaN(held)
                        d == FloatOf(held) - Get(t.threshold_value)
                        near == Abs(d) < (FP + 999999) \div 1000000
                    IN  /\ t.comparison = Some("==") => (Fires(t.trigger_id) <=> number /\ near)
                        /\ t.comparison = Some("!=") => (Fires(t.trigger_id) <=> number /\ ~near)
                        /\ t.comparison = Some(">") => (Fires(t.trigger_id) <=> number /\ d > 0)
                        /\ t.comparison = Some("<") => (Fires(t.trigger_id) <=> number /\ d < 0)
                        /\ t.comparison = Some(">=") => (Fires(t.trigger_id) <=> number /\ d >= 0)
                        /\ t.comparison = Some("<=") => (Fires(t.trigger_id) <=> number /\ d <= 0)
                        /\ \A j \in 1..Len(triggers) :
                              (/\ t.comparison = Some("==")
                               /\ triggers[j].comparison = Some("!=")
                               /\ triggers[j].enabled
                               /\ triggers[j].threshold_value = t.threshold_value)
                              => (Fires(t.trigger_id) <=> ~Fires(triggers[j].trigger_id))]_vars

\* ------------------------------------------------------------------------
\* Properties of the mutators
\* ------------------------------------------------------------------------
MutatorCalls ==
    { "add_trigger", "remove_trigger", "remove_trigger:unknown", "enable_trigger",
      "enable_trigger:unknown", "clear_triggers", "load_triggers",
      "load_triggers:missing" }

\* C28: add_trigger, remove_trigger, enable_trigger, clear_triggers and
\* load_triggers change only the trigger set: history and both rolling
\* windows stay as they were, so the events of a removed trigger stay in
\* history; add_trigger with an id already held replaces that trigger, and the
\* set never holds two triggers with the same id.
C28_MutatorsChangeOnlyTriggers ==
    [][/\ Cardinality(Ids(triggers')) = Len(triggers')
       /\ op' \in MutatorCalls =>
            /\ history' = history
            /\ message_timestamps' = message_timestamps
            /\ error_count_window' = error_count_window
       /\ op' = "add_trigger" =>
            /\ Ids(triggers) \subseteq Ids(triggers')
            /\ Len(triggers') - Len(triggers)
                  = Cardinality(Ids(triggers') \ Ids(triggers))
            /\ Cardinality(Ids(triggers') \ Ids(triggers)) <= 1]_vars

\* Reached: a trigger that fired was removed and its event is still in
\* history.
C28_Witness ==
    /\ op = "remove_trigger"
    /\ history # <<>>
    /\ history[1].trigger_id \notin Ids(triggers)
    /\ message_timestamps # <<>>

\* ------------------------------------------------------------------------
\* Properties of the list evaluate_message returns
\* ------------------------------------------------------------------------
\* C30: the list evaluate_message returns is exactly the sequence of events
\* the call appended to history: one event per enabled trigger that fired,
\* in the insertion order of the triggers, each stamped with the record's
\* timestamp.  When no trigger fires the list is empty and history, fire
\* counts and last_fired are unchanged, while the rolling windows are still
\* updated.
C30_ReturnedListIsWhatWasAppended ==
    [][EvaluateStep =>
        /\ history' = LastOf(history \o fired_events', 1000)
        /\ \A k \in 1..Len(fired_events') :
              /\ fired_events'[k].timestamp = lastMsg'.timestamp
              /\ \E i \in 1..Len(triggers) :
                    /\ triggers[i].trigger_id = fired_events'[k].trigger_id
                    /\ triggers[i].enabled
                    /\ triggers'[i].fire_count = triggers[i].fire_count + 1
        /\ \A k, l \in 1..Len(fired_events') :
              k < l => IndexOf(triggers, fired_events'[k].trigger_id)
                          < IndexOf(triggers, fired_events'[l].trigger_id)
        /\ Len(fired_events')
              = Cardinality({i \in 1..Len(triggers) :
                                triggers'[i].fire_count # triggers[i].fire_count})
        /\ fired_events' = <<>> => (history' = history /\ triggers' = triggers)
        /\ lastMsg'.timestamp >= now - 300 =>
              Occurrences(message_timestamps', lastMsg'.timestamp)
                 = Occurrences(message_timestamps, lastMsg'.timestamp) + 1]_vars

\* Reached: a call on a record stamped 1 in which both triggers fired, in
\* insertion order, after an earlier call had put events in history.
C30_Witness ==
    /\ lastOp = "evaluate_message"
    /\ lastMsg.timestamp = 1
    /\ Len(triggers) = 2
    /\ Len(fired_events) = 2
    /\ fired_events[1].trigger_id = triggers[1].trigger_id
    /\ fired_events[2].trigger_id = triggers[2].trigger_id
    /\ Len(history) > 2
    /\ history[1].timestamp = 0
    /\ SubSeq(history, Len(history) - 1, Len(history)) = fired_events

\* ------------------------------------------------------------------------
\* The backends: a worker thread, a bounded queue, start / stop / read_message
\* ------------------------------------------------------------------------
MaxRecords == 2      \* appends made by the workers in a behaviour
MaxWorkers == 2      \* worker threads created in a behaviour
MaxReads == 2        \* how far read_message drains a queue that started full

\* deque(maxlen=5000)
maxlen == 5000

\* deque.append on a deque with maxlen: when the deque is full, the item at
\* the other end is discarded.
deque_append(queue, item) ==
    IF Len(queue) >= maxlen THEN Append(Tail(queue), item) ELSE Append(queue, item)

SerialConnectionLost ==
    <<"S", "e", "r", "i", "a", "l", " ", "c", "o", "n", "n", "e", "c",
      "t", "i", "o", "n", " ", "l", "o", "s", "t">>
\* f"Reader error: {exc}" of an exception whose text is empty
ReaderError ==
    <<"R", "e", "a", "d", "e", "r", " ", "e", "r", "r", "o", "r", ":", " ">>

\* The lines the port delivers, and what the demo producer draws.
PortLines == { <<"x">> }
DrawnSimple == { m \in _DEMO_MESSAGES : m[2][1] = "R" /\ m[2][2] = "S" }
DrawnLines == { ln \in DemoLines : ln[2] = "I" }

\* What a worker that has only produced ordinary records leaves in the queue
\* when nobody reads: record i was stamped at instant i.
Backlog(which, n) ==
    [i \in 1..n |->
        IF which = "serial"
        THEN _parse_line(CHOOSE ln \in PortLines : TRUE, i)
        ELSE LET m == CHOOSE m \in DrawnSimple : TRUE
             IN  plain_record(m[1], m[2], i)]

Live(w) == workers[w].at # "exited"

engine_idle ==
    /\ NoResult
    /\ UNCHANGED <<triggers, history, message_timestamps, error_count_window,
                   handlers, seen, fired, disk>>

\* start(): nothing when the flag is set; else the port is opened (serial),
\* the flag is set and a new thread is started.
start ==
    /\ caller = "idle"
    /\ IF _running
       THEN /\ Traced("start:running")
            /\ UNCHANGED <<_running, _thread, _ser, workers>>
       ELSE /\ Len(workers) < MaxWorkers
            /\ _ser' = IF backend = "serial" THEN Some("port") ELSE _ser
            /\ _running' = TRUE
            /\ workers' = Append(workers, [at |-> "test", asked |-> FALSE])
            /\ _thread' = Some(Len(workers) + 1)
            /\ Traced("start")
    /\ engine_idle
    /\ UNCHANGED <<now, line, parsed, backend, _queue, caller, got, arrivals>>

\* start() of SerialBackend when serial.Serial raises: nothing was assigned.
start_fails ==
    /\ caller = "idle"
    /\ backend = "serial"
    /\ ~_running
    /\ Traced("start:failed")
    /\ engine_idle
    /\ UNCHANGED <<now, line, parsed>>
    /\ UNCHANGED backend_state

\* stop() up to the join: the flag is cleared; without a thread the call
\* ends here, closing the port.
stop ==
    /\ caller = "idle"
    /\ _running' = FALSE
    /\ workers' = [w \in DOMAIN workers |->
                      IF Live(w) THEN [workers[w] EXCEPT !.asked = TRUE]
                      ELSE workers[w]]
    /\ IF IsNone(_thread)
       THEN /\ _ser' = None
            /\ caller' = "idle"
            /\ Traced("stop:no_thread")
       ELSE /\ _ser' = _ser
            /\ caller' = "joining"
            /\ Traced("stop")
    /\ engine_idle
    /\ UNCHANGED <<now, line, parsed, backend, _queue, _thread, got, arrivals>>

\* stop() from the return of join(timeout=2): the thread has ended, or two
\* seconds have passed and it has not.
join_returns ==
    /\ caller = "joining"
    /\ caller' = "idle"
    /\ _thread' = None
    /\ _ser' = None
    /\ Traced(IF Live(Get(_thread)) THEN "join:timeout" ELSE "join")
    /\ engine_idle
    /\ UNCHANGED <<now, line, parsed, backend, _queue, _running, workers, got,
                   arrivals>>

\* read_message(): popleft, None on an empty deque.
read_message ==
    /\ caller = "idle"
    /\ Len(_queue) <= MaxRecords \/ Len(_queue) >= maxlen - MaxReads
    /\ IF _queue = <<>>
       THEN /\ got' = None
            /\ _queue' = _queue
            /\ Traced("read_message:empty")
       ELSE /\ got' = Some(Head(_queue))
            /\ _queue' = Tail(_queue)
            /\ Traced("read_message")
    /\ engine_idle
    /\ UNCHANGED <<now, line, parsed, backend, _running, _thread, _ser, workers,
                   caller, arrivals>>

\* `while self._running:` in thread w.
loop_test(w) ==
    /\ workers[w].at = "test"
    /\ workers' = [workers EXCEPT ![w].at = IF _running THEN "body" ELSE "exited"]
    /\ Traced(IF _running THEN "loop_test" ELSE "loop_exit")
    /\ engine_idle
    /\ UNCHANGED <<now, line, parsed, backend, _queue, _running, _thread, _ser,
                   caller, got, arrivals>>

\* Thread w appends a record; the clock moves on.
appends(w, record) ==
    /\ Len(arrivals) < MaxRecords
    /\ _queue' = deque_append(_queue, record)
    /\ arrivals' = Append(arrivals, [by |-> w, record |-> record])
    /\ parsed' = Some(record)
    /\ now' = now + 1

\* One pass of the body of _reader_loop in thread w: readline returns a
\* line or nothing, or raises.
reader_pass(w, outcome) ==
    /\ backend = "serial"
    /\ workers[w].at = "body"
    /\ workers' = [workers EXCEPT ![w].at = "test"]
    /\ IsNone(_ser) => outcome = "Exception"
    /\ \/ /\ outcome = "line"
          /\ \E ln \in PortLines :
                /\ appends(w, _parse_line(ln, now))
                /\ line' = ln
          /\ _running' = _running
       \/ /\ outcome = "empty"
          /\ UNCHANGED <<_queue, arrivals, parsed, now, line, _running>>
       \/ /\ outcome = "SerialException"
          /\ appends(w, plain_record("ERROR", SerialConnectionLost, now))
          /\ _running' = FALSE
          /\ line' = <<>>
       \/ /\ outcome = "Exception"
          /\ appends(w, plain_record("ERROR", ReaderError, now))
          /\ _running' = _running
          /\ line' = <<>>
    /\ Traced("reader_pass:" \o outcome)
    /\ engine_idle
    /\ UNCHANGED <<backend, _thread, _ser, caller, got>>

\* One pass of the body of _producer in thread w, up to the end of the sleep.
producer_pass(w) ==
    /\ backend = "demo"
    /\ workers[w].at = "body"
    /\ workers' = [workers EXCEPT ![w].at = "test"]
    /\ \/ \E ln \in DrawnLines :
             /\ appends(w, _parse_line(ln, now))
             /\ line' = ln
       \/ \E choice \in DrawnSimple :
             /\ appends(w, plain_record(choice[1], choice[2], now))
             /\ line' = <<>>
    /\ Traced("producer_pass")
    /\ engine_idle
    /\ UNCHANGED <<backend, _running, _thread, _ser, caller, got>>

\* A backend of either class holding `held` records, and no thread alive.
InitBackend(held) ==
    /\ triggers = <<>>
    /\ history = <<>>
    /\ message_timestamps = <<>>
    /\ error_count_window = <<>>
    /\ handlers = {}
    /\ fired_events = <<>>
    /\ raised = "none"
    /\ calls = <<>>
    /\ lastOp = "other"
    /\ lastMsg = NoMsg
    /\ seen = <<>>
    /\ fired = <<>>
    /\ disk = None
    /\ op = "__init__"
    /\ line = <<>>
    /\ parsed = None
    /\ backend \in {"serial", "demo"}
    /\ _queue = Backlog(backend, held)
    /\ now = Len(_queue) + 1
    /\ _running = FALSE
    /\ _thread = None
    /\ _ser = None
    /\ workers = <<>>
    /\ caller = "idle"
    /\ got = None
    /\ arrivals = <<>>

ReadlineOutcomes == {"line", "empty", "SerialException", "Exception"}

\* SpecThreads: the caller starts, stops and reads; the queue starts empty.
InitThreads == InitBackend(0)

NextThreads ==
    \/ start
    \/ start_fails
    \/ stop
    \/ join_returns
    \/ read_message
    \/ \E w \in DOMAIN workers : loop_test(w)
    \/ \E w \in DOMAIN workers, outcome \in ReadlineOutcomes : reader_pass(w, outcome)
    \/ \E w \in DOMAIN workers : producer_pass(w)

SpecThreads == InitThreads /\ [][NextThreads]_vars

\* SpecQueue: the caller starts and reads, and never stops; the queue starts
\* one record short of full.
InitQueue == InitBackend(maxlen - 1)

NextQueue ==
    \/ start
    \/ start_fails
    \/ read_message
    \/ \E w \in DOMAIN workers : loop_test(w)
    \/ \E w \in DOMAIN workers, outcome \in ReadlineOutcomes : reader_pass(w, outcome)
    \/ \E w \in DOMAIN workers : producer_pass(w)

SpecQueue == InitQueue /\ [][NextQueue]_vars

\* ------------------------------------------------------------------------
\* Properties of the queue and the threads
\* ------------------------------------------------------------------------
Enqueued == arrivals' # arrivals
Arrival == arrivals'[Len(arrivals')].record

\* C22: the queue never holds more than 5000 records; a record arriving while
\* the queue is full is the one dropped and the queued records stay as they
\* are (an append is a single step of the worker, so it never waits); and
\* read_message returns the earliest record enqueued and not yet read.
C22_FullQueueDropsArrival ==
    [][/\ Len(_queue') <= maxlen
       /\ Enqueued =>
             _queue' = IF Len(_queue) >= maxlen THEN _queue
                       ELSE Append(_queue, Arrival)
       /\ op' = "read_message" =>
             /\ got' = Some(Head(_queue))
             /\ _queue' = Tail(_queue)]_vars

\* C23: a connection error raised by the port in the reader thread enqueues
\* exactly one ERROR record "Serial connection lost" and clears the flag; the
\* thread is back at its loop test, which ends it while the flag is clear;
\* and every record queued before the loss is still queued, in its order,
\* ahead of that record.
C23_LossKeepsQueuedRecords ==
    [][/\ op' = "reader_pass:SerialException" =>
             /\ Len(arrivals') = Len(arrivals) + 1
             /\ Arrival.level = "ERROR"
             /\ Arrival.text = SerialConnectionLost
             /\ ~_running'
             /\ workers'[arrivals'[Len(arrivals')].by].at = "test"
             /\ _queue' = Append(_queue, Arrival)
       /\ \A w \in DOMAIN workers :
             (workers[w].at = "test" /\ ~_running /\ workers'[w].at # "test")
                => workers'[w].at = "exited"]_vars

\* C27: at most one worker thread is appending to the queue at any time:
\* start() while the flag is set creates no thread, at most one thread is
\* inside the body of its loop, and a thread that stop() has asked to end
\* never passes its loop test again, whatever start() calls follow.
C27_OneWorkerAppending ==
    [][/\ op' = "start:running" => workers' = workers
       /\ Cardinality({w \in DOMAIN workers' : workers'[w].at = "body"}) <= 1
       /\ \A w \in DOMAIN workers :
             (workers[w].asked /\ workers[w].at = "test")
                => workers'[w].at # "body"]_vars
====
